---------------------------- MODULE Spec2Model ----------------------------
(***************************************************************************)
(* Model of src/src/App.js: the deep schedule fetcher (fetchDeepSchedule), *)
(* its retry loop, the three fan-out phases that patch the event graph,    *)
(* and the normalizer (extractTeams) that projects the graph into Games.   *)
(*                                                                         *)
(* Conventions for JavaScript values:                                      *)
(*   - an optional scalar is a sequence: <<>> is undefined/null, <<v>> is  *)
(*     the value v;                                                        *)
(*   - a team object and an odds entry are records whose DOMAIN is the set *)
(*     of properties present on the object (a missing property is a       *)
(*     missing field), read through Field(obj, name, default);             *)
(*   - a string built by concatenation is the sequence of its pieces.      *)
(***************************************************************************)
EXTENDS Integers, Sequences, FiniteSets, TLC

VARIABLES
    pc,          \* position of the one fetchDeepSchedule call
    i,           \* loop counter of the retry loop (App.js:348)
    delay,       \* current backoff delay in ms (App.js:346)
    waits,       \* the backoff delays waited so far, in order
    rootFetches, \* number of fetch(url) calls issued for the root URL
    rootLog,     \* outcome of every settled root attempt, in order
    events,      \* the event graph being patched (App.js:357)
    base,        \* the event graph as Phase 1 found it
    tasks,       \* the sub-resource promises: task key -> [st, body]
    err,         \* what the call threw ("none" while it has not thrown)
    errSource,   \* which fetch or step raised the thrown error
    games,       \* what the call returned: <<>> or <<list of Games>>
    \* --- the schedule view: initializeFetch (App.js:584-616) ---
    requestedUrl,      \* requestedUrl as the running initializeFetch closed over it
    loading,           \* state loading (App.js:112)
    error,             \* state error (App.js:113): <<>> is null, <<reason>> a message
    gamesState,        \* state games (App.js:111), the list on display
    hasAttemptedQuery, \* state hasAttemptedQuery (App.js:115)
    ifpc,              \* position of the initializeFetch call
    result,            \* how the awaited fetchDeepSchedule settled
    apiUrlUsed,        \* state apiUrlUsed (App.js:114), written at App.js:343
    \* --- the ranking view: the continuation of fetchEvents (App.js:631-706) ---
    isSpecificWeek,    \* !!(year && week) (App.js:627)
    upstream,          \* what the awaited fetch delivered: the scoreboard body
                       \* (App.js:697) or the event graph behind result.games
    rankingData,       \* rankingData (App.js:640) or transformed (App.js:700)
    rankedEvents,      \* state events (App.js:101), set by setEvents(ranked)
    isLoading,         \* state isLoading (App.js:102)
    networkError,      \* state networkError (App.js:104): <<>> is null
    modalOpen,         \* state modalOpen (App.js:103)
    fepc,              \* position of the fetchEvents call
    \* --- the selection and the requests made for it (App.js:108-110) ---
    year,              \* state year (App.js:108): 0 is null
    week,              \* state week (App.js:109): 0 is null
    queryTrigger,      \* state queryTrigger (App.js:110)
    fetches,           \* the initializeFetch calls made so far, in order: the
                       \* requestedUrl each closed over, the queryTrigger of the
                       \* render whose effect made it, and whether it settled
    rankedFor,         \* year and week as the running fetchEvents closed over
                       \* them (App.js:627, 718)
    currentYear        \* new Date().getFullYear() (App.js:107), the year of the
                       \* clock, which the model keeps within one year

\* the variables of one fetchDeepSchedule call
callVars == <<pc, i, delay, waits, rootFetches, rootLog, events, base, tasks,
              err, errSource, games>>
\* the state of the schedule view
viewVars == <<requestedUrl, loading, error, gamesState, hasAttemptedQuery, ifpc, result,
              apiUrlUsed>>
\* the state of the ranking view
rankVars == <<isSpecificWeek, upstream, rankingData, rankedEvents,
              isLoading, networkError, modalOpen, fepc>>

\* the selection made in the controls and the requests it caused
selectionVars == <<year, week, queryTrigger, fetches, rankedFor, currentYear>>

vars == <<callVars, viewVars, rankVars, selectionVars>>

---------------------------------------------------------------------------
(* Bounds of the model.                                                    *)

\* Longest event list a root response carries.
MaxEvents == 2

\* Attempts of one call that are abandoned and repeated because a body that
\* is not JSON has the text of an error page.
MaxTextRetries == 1
\* Most Phase 1 + Phase 2 sub-resource fetches one response set may cause.
MaxSubFetches == 6
\* Longest event list the ranking view receives.
MaxRankEvents == 3
\* events in a list handed to the normalizer alone
MaxNormalizeEvents == 2
\* events in a list of games with varied teams and odds
MaxGameEvents == 2

---------------------------------------------------------------------------
(* Generic helpers.                                                        *)

None == <<>>
Some(x) == <<x>>

Field(obj, f, dflt) == IF f \in DOMAIN obj THEN obj[f] ELSE dflt

\* { ...old, ...new } (App.js:398): every property of new, and the
\* properties of old that new does not carry.
Merge(old, new) ==
    [f \in (DOMAIN old) \cup (DOMAIN new) |->
        IF f \in DOMAIN new THEN new[f] ELSE old[f]]

RECURSIVE SumSeq(_)
SumSeq(s) == IF s = <<>> THEN 0 ELSE Head(s) + SumSeq(Tail(s))

RECURSIVE Pow2(_)
Pow2(n) == IF n = 0 THEN 1 ELSE 2 * Pow2(n - 1)

Indices(s) == 1..Len(s)

RECURSIVE SetToSeq(_)
\* the elements of a finite set of integers in ascending order
SetToSeq(S) ==
    IF S = {} THEN <<>>
    ELSE LET m == CHOOSE x \in S : \A y \in S : x <= y
         IN <<m>> \o SetToSeq(S \ {m})

---------------------------------------------------------------------------
(* URLs the fetcher builds or follows.                                     *)

NoUrl == [kind |-> "N/A", a |-> 0, b |-> 0]
OddsUrl(eventId, competitionId) == [kind |-> "odds", a |-> eventId, b |-> competitionId]
OddsRefUrl(eventId, competitionId) == [kind |-> "odds$ref", a |-> eventId, b |-> competitionId]
OddsMissingUrl == [kind |-> "N/A - Missing Event IDs or API Reference", a |-> 0, b |-> 0]
StatusUrl(eventId, competitionId) == [kind |-> "status", a |-> eventId, b |-> competitionId]
StatusMissingUrl == [kind |-> "N/A - Missing Event IDs", a |-> 0, b |-> 0]
RecordUrl(y, teamId) == [kind |-> "record", a |-> y, b |-> teamId]

\* requestedUrl (App.js:125-129): the scoreboard URL unless both a year and
\* a week are selected (0 stands for null)
RequestedUrl(y, w) ==
    IF y # 0 /\ w # 0
    THEN [kind |-> "schedule", a |-> y, b |-> w]
    ELSE [kind |-> "SCOREBOARD_URL", a |-> 0, b |-> 0]

SCOREBOARD_URL == RequestedUrl(0, 0)

\* rankingUrl of the ranking view (App.js:132-135) when no week is selected:
\* API_URL, the site scoreboard
API_URL == [kind |-> "API_URL", a |-> 0, b |-> 0]

\* apiUrlUsed before any call: useState('') (App.js:114)
NoUrlUsed == [kind |-> "", a |-> 0, b |-> 0]

\* the years the clock can show
ClockYears == {2025, 2026}

\* targetYear of a render whose year is y (App.js:119): the selected year,
\* the year of the clock while none is selected (0 stands for null)
TargetYearOf(y) == IF y # 0 THEN y ELSE currentYear

\* targetYear (App.js:119)
targetYear == TargetYearOf(year)

---------------------------------------------------------------------------
(* The event graph.                                                        *)
(*   event       [id, name, ref, statusState, compsPresent, competitions,  *)
(*                debugOddsUrl, debugStatusUrl]                            *)
(*   competition [id, competitorsPresent, competitors, odds]               *)
(*   competitor  [homeAway, team, score, debugRecordUrl]                   *)
(*   team        the properties present, among ref ($ref), id,             *)
(*               displayName, shortDisplayName, abbreviation, logo,       *)
(*               records                                                   *)
(*   score       [ref, val]: an inline number has val = <<n>>, a deferred  *)
(*               score has ref = TRUE                                      *)
(*   odds entry  the properties present, among ref ($ref), items,          *)
(*               awayTeamOdds, homeTeamOdds, moneyLine                     *)
(* id 0 and the empty string stand for a missing (falsy) id or string.     *)

InlineScore(n) == [ref |-> FALSE, val |-> Some(n)]
RefScore == [ref |-> TRUE, val |-> None]
NoScore == [ref |-> FALSE, val |-> None]

Competitor(ha, team, score) ==
    [homeAway |-> ha, team |-> team, score |-> score, debugRecordUrl |-> NoUrl]

Competition(id, competitors, odds) ==
    [id |-> id, competitorsPresent |-> TRUE, competitors |-> competitors, odds |-> odds]

\* a competition object that carries no competitors property
CompetitionNoCompetitors(id) ==
    [id |-> id, competitorsPresent |-> FALSE, competitors |-> <<>>, odds |-> <<>>]

Event(id, name, competitions) ==
    [id |-> id, name |-> name, ref |-> FALSE, statusState |-> "",
     compsPresent |-> TRUE, competitions |-> competitions,
     debugOddsUrl |-> NoUrl, debugStatusUrl |-> NoUrl]

\* an item of the root list that is only a deferred reference { $ref }
RefItem ==
    [id |-> 0, name |-> "", ref |-> TRUE, statusState |-> "",
     compsPresent |-> FALSE, competitions |-> <<>>,
     debugOddsUrl |-> NoUrl, debugStatusUrl |-> NoUrl]

\* an event object without a competitions property
EventNoCompetitions(id) == [Event(id, "", <<>>) EXCEPT !.compsPresent = FALSE]

---------------------------------------------------------------------------
(* Number formatting (String(n) and formatMoneyLine).                      *)

DigitChar(d) ==
    CASE d = 0 -> "0" [] d = 1 -> "1" [] d = 2 -> "2" [] d = 3 -> "3"
      [] d = 4 -> "4" [] d = 5 -> "5" [] d = 6 -> "6" [] d = 7 -> "7"
      [] d = 8 -> "8" [] d = 9 -> "9"

RECURSIVE Digits(_)
Digits(n) == IF n < 10 THEN <<DigitChar(n)>> ELSE Digits(n \div 10) \o <<DigitChar(n % 10)>>

\* '' + n for an integer n
NumStr(n) == IF n < 0 THEN <<"-">> \o Digits(-n) ELSE Digits(n)

NAStr == <<"N", "/", "A">>

formatMoneyLineUnsigned(ml) ==
    IF ml # None
    THEN Some(NumStr(ml[1]))
    ELSE None

\* formatMoneyLine (App.js:166): ml is <<>> (null/undefined) or <<n>>;
\* the result is <<>> (null) or <<string>>.
formatMoneyLine(ml) ==
    IF ml # None
    THEN Some((IF ml[1] > 0 THEN <<"+">> ELSE <<>>) \o NumStr(ml[1]))
    ELSE None

---------------------------------------------------------------------------
(* The normalizer, extractTeams (App.js:142-333).                          *)

\* Array.prototype.find over the positions S that satisfy the test: the
\* first one, 0 when there is none.
FirstIndex(S) == IF S = {} THEN 0 ELSE CHOOSE k \in S : \A j \in S : k <= j

\* forEach assignment: the last position of S overwrites the earlier ones.
LastIndex(S) == IF S = {} THEN 0 ELSE CHOOSE k \in S : \A j \in S : k >= j

UpperCaseLetters ==
    <<"A", "B", "C", "D", "E", "F", "G", "H", "I", "J", "K", "L", "M",
      "N", "O", "P", "Q", "R", "S", "T", "U", "V", "W", "X", "Y", "Z">>
LowerCaseLetters ==
    <<"a", "b", "c", "d", "e", "f", "g", "h", "i", "j", "k", "l", "m",
      "n", "o", "p", "q", "r", "s", "t", "u", "v", "w", "x", "y", "z">>

\* the lower-case form of one character of the Latin alphabet; any other
\* character of the model's strings is its own lower-case form
LowerOf(c) ==
    IF \E k \in 1..26 : UpperCaseLetters[k] = c
    THEN LowerCaseLetters[CHOOSE k \in 1..26 : UpperCaseLetters[k] = c]
    ELSE c

\* String.prototype.toLowerCase of a string of characters
toLowerCase(str) == [k \in DOMAIN str |-> LowerOf(str[k])]

\* the name of a record is a string of characters, <<>> when it has none
Overall == <<"o", "v", "e", "r", "a", "l", "l">>

\* r.type === 'total' || r.name?.toLowerCase() === 'overall' (App.js:229, 510)
IsOverallRecord(r) == r.type = "total" \/ toLowerCase(r.name) = Overall

\* The moneyline of one side of an odds source (App.js:182-186, 193-197):
\* <<>> when nothing is to be written to the map (undefined), else <<ml>>
\* with ml the value to format (itself <<>> for null).
SideMoneyline(oddsObject) ==
    IF "Moneyline" \in DOMAIN oddsObject THEN Some(oddsObject.Moneyline)
    ELSE IF "moneyLine" \in DOMAIN oddsObject THEN Some(oddsObject.moneyLine)
    ELSE None

\* oddsMap after Attempt 1 (App.js:177-199): a function team id -> formatted
TeamId(comp) == Field(comp.team, "id", 0)

OddsMapSide(map, comps, k, oddsSource, side) ==
    IF k # 0 /\ TeamId(comps[k]) # 0 /\ side \in DOMAIN oddsSource
       /\ SideMoneyline(oddsSource[side]) # None
    THEN Merge(map, [t \in {TeamId(comps[k])} |->
                        formatMoneyLine(SideMoneyline(oddsSource[side])[1])])
    ELSE map

RECURSIVE OddsMapFallback(_, _)
\* Attempt 2 (App.js:203-207): each { targetId, moneyLine } entry in order
OddsMapFallback(map, list) ==
    IF list = <<>> THEN map
    ELSE LET ml == Head(list)
             next == IF ml.targetId # 0 /\ "moneyLine" \in DOMAIN ml
                     THEN Merge(map, [t \in {ml.targetId} |-> formatMoneyLine(ml.moneyLine)])
                     ELSE map
         IN OddsMapFallback(next, Tail(list))

OddsMapAlwaysFallback(competition) ==
    LET comps == competition.competitors
        oddsList == competition.odds
        awayK == FirstIndex({n \in 1..Len(comps) : comps[n].homeAway = "away"})
        homeK == FirstIndex({n \in 1..Len(comps) : comps[n].homeAway = "home"})
    IN IF Len(oddsList) > 0
       THEN LET primaryOdds == oddsList[1]
                items == Field(primaryOdds, "items", <<>>)
                oddsSource == IF Len(items) > 0 THEN items[1] ELSE primaryOdds
                m1 == OddsMapSide(<<>>, comps, awayK, oddsSource, "awayTeamOdds")
                m2 == OddsMapSide(m1, comps, homeK, oddsSource, "homeTeamOdds")
            IN IF "moneyLine" \in DOMAIN primaryOdds
               THEN OddsMapFallback(m2, primaryOdds.moneyLine)
               ELSE m2
       ELSE <<>>

OddsMap(competition) ==
    LET comps == competition.competitors
        oddsList == competition.odds
        awayK == FirstIndex({n \in 1..Len(comps) : comps[n].homeAway = "away"})
        homeK == FirstIndex({n \in 1..Len(comps) : comps[n].homeAway = "home"})
    IN IF Len(oddsList) > 0
       THEN LET primaryOdds == oddsList[1]
                items == Field(primaryOdds, "items", <<>>)
                oddsSource == IF Len(items) > 0 THEN items[1] ELSE primaryOdds
                m1 == OddsMapSide(<<>>, comps, awayK, oddsSource, "awayTeamOdds")
                m2 == OddsMapSide(m1, comps, homeK, oddsSource, "homeTeamOdds")
            IN IF DOMAIN m2 = {} /\ "moneyLine" \in DOMAIN primaryOdds
               THEN OddsMapFallback(m2, primaryOdds.moneyLine)
               ELSE m2
       ELSE <<>>

CompDataNamelessTeam(comp, oddsMap) ==
    LET team == comp.team
        displayName == Field(team, "displayName", "")
        shortName == Field(team, "shortDisplayName", "")
        abbr == Field(team, "abbreviation", "")
        teamName == IF displayName # "" THEN displayName
                    ELSE IF shortName # "" THEN shortName
                    ELSE abbr
        teamId == Field(team, "id", 0)
        teamOdds == IF teamId # 0 /\ teamId \in DOMAIN oddsMap /\ oddsMap[teamId] # None
                    THEN oddsMap[teamId][1] ELSE NAStr
        records == Field(team, "records", <<>>)
        k == FirstIndex({n \in 1..Len(records) : IsOverallRecord(records[n])})
        teamRecord == IF k = 0 THEN ""
                      ELSE IF records[k].summary # "" THEN records[k].summary
                      ELSE records[k].displayValue
    IN [teamName |-> teamName,
        score |-> comp.score.val,
        teamLogo |-> Field(team, "logo", ""),
        teamRecord |-> IF teamRecord = "" THEN "N/A" ELSE teamRecord,
        debugRecordUrl |-> comp.debugRecordUrl,
        teamOdds |-> teamOdds,
        teamNameAbr |-> abbr]

\* what the competitors.forEach body computes for one competitor (213-259)
CompData(comp, oddsMap) ==
    LET team == comp.team
        displayName == Field(team, "displayName", "")
        shortName == Field(team, "shortDisplayName", "")
        abbr == Field(team, "abbreviation", "")
        teamName == IF displayName # "" THEN displayName
                    ELSE IF shortName # "" THEN shortName
                    ELSE IF abbr # "" THEN abbr ELSE "Unknown Team"
        teamId == Field(team, "id", 0)
        teamOdds == IF teamId # 0 /\ teamId \in DOMAIN oddsMap /\ oddsMap[teamId] # None
                    THEN oddsMap[teamId][1] ELSE NAStr
        records == Field(team, "records", <<>>)
        k == FirstIndex({n \in 1..Len(records) : IsOverallRecord(records[n])})
        teamRecord == IF k = 0 THEN ""
                      ELSE IF records[k].summary # "" THEN records[k].summary
                      ELSE records[k].displayValue
    IN [teamName |-> teamName,
        score |-> comp.score.val,
        teamLogo |-> Field(team, "logo", ""),
        teamRecord |-> IF teamRecord = "" THEN "N/A" ELSE teamRecord,
        debugRecordUrl |-> comp.debugRecordUrl,
        teamOdds |-> teamOdds,
        teamNameAbr |-> abbr]

\* TRUE iff the forEach body of extractTeams pushes a Game for the event
EmitsGame(event) ==
    /\ event.compsPresent /\ Len(event.competitions) > 0
    /\ event.competitions[1].competitorsPresent
    /\ Len(event.competitions[1].competitors) >= 2
    /\ \E c \in Indices(event.competitions[1].competitors) :
            event.competitions[1].competitors[c].homeAway = "home"
    /\ \E c \in Indices(event.competitions[1].competitors) :
            event.competitions[1].competitors[c].homeAway = "away"

GameOfKeepsScore(event) ==
    LET competition == event.competitions[1]
        comps == competition.competitors
        oddsMap == OddsMap(competition)
        homeData == CompData(comps[LastIndex({n \in 1..Len(comps) : comps[n].homeAway = "home"})], oddsMap)
        awayData == CompData(comps[LastIndex({n \in 1..Len(comps) : comps[n].homeAway = "away"})], oddsMap)
        h == homeData.score
        a == awayData.score
        st == event.statusState
        post == st = "post"
        live == st # "" /\ st # "pre" /\ ~post
        decided == post /\ h # None /\ a # None
    IN [name |-> IF event.name # "" THEN <<event.name>>
                 ELSE <<awayData.teamName, " at ", homeData.teamName>>,
        homeTeam |-> homeData.teamName, awayTeam |-> awayData.teamName,
        homeTeamAbr |-> homeData.teamNameAbr, awayTeamAbr |-> awayData.teamNameAbr,
        homeLogo |-> homeData.teamLogo, awayLogo |-> awayData.teamLogo,
        homeRecord |-> homeData.teamRecord, awayRecord |-> awayData.teamRecord,
        homeScore |-> h,
        awayScore |-> a,
        homeStatus |-> IF decided
                       THEN (IF h[1] > a[1] THEN "winner" ELSE IF a[1] > h[1] THEN "loser" ELSE "tie")
                       ELSE IF live THEN "in-progress" ELSE "upcoming",
        awayStatus |-> IF decided
                       THEN (IF h[1] > a[1] THEN "loser" ELSE IF a[1] > h[1] THEN "winner" ELSE "tie")
                       ELSE IF live THEN "in-progress" ELSE "upcoming",
        homeOdds |-> homeData.teamOdds, awayOdds |-> awayData.teamOdds,
        homeDebugRecordUrl |-> homeData.debugRecordUrl,
        awayDebugRecordUrl |-> awayData.debugRecordUrl,
        debugOddsUrl |-> event.debugOddsUrl,
        debugStatusUrl |-> event.debugStatusUrl]

GameOfLiveOnlyIn(event) ==
    LET competition == event.competitions[1]
        comps == competition.competitors
        oddsMap == OddsMap(competition)
        homeData == CompData(comps[LastIndex({n \in 1..Len(comps) : comps[n].homeAway = "home"})], oddsMap)
        awayData == CompData(comps[LastIndex({n \in 1..Len(comps) : comps[n].homeAway = "away"})], oddsMap)
        h == homeData.score
        a == awayData.score
        st == event.statusState
        post == st = "post"
        live == st = "in"
        decided == post /\ h # None /\ a # None
    IN [name |-> IF event.name # "" THEN <<event.name>>
                 ELSE <<awayData.teamName, " at ", homeData.teamName>>,
        homeTeam |-> homeData.teamName, awayTeam |-> awayData.teamName,
        homeTeamAbr |-> homeData.teamNameAbr, awayTeamAbr |-> awayData.teamNameAbr,
        homeLogo |-> homeData.teamLogo, awayLogo |-> awayData.teamLogo,
        homeRecord |-> homeData.teamRecord, awayRecord |-> awayData.teamRecord,
        homeScore |-> IF post \/ live THEN h ELSE None,
        awayScore |-> IF post \/ live THEN a ELSE None,
        homeStatus |-> IF decided
                       THEN (IF h[1] > a[1] THEN "winner" ELSE IF a[1] > h[1] THEN "loser" ELSE "tie")
                       ELSE IF live THEN "in-progress" ELSE "upcoming",
        awayStatus |-> IF decided
                       THEN (IF h[1] > a[1] THEN "loser" ELSE IF a[1] > h[1] THEN "winner" ELSE "tie")
                       ELSE IF live THEN "in-progress" ELSE "upcoming",
        homeOdds |-> homeData.teamOdds, awayOdds |-> awayData.teamOdds,
        homeDebugRecordUrl |-> homeData.debugRecordUrl,
        awayDebugRecordUrl |-> awayData.debugRecordUrl,
        debugOddsUrl |-> event.debugOddsUrl,
        debugStatusUrl |-> event.debugStatusUrl]

GameOfByPosition(event) ==
    LET competition == event.competitions[1]
        comps == competition.competitors
        oddsMap == OddsMap(competition)
        homeData == CompData(comps[Len(comps)], oddsMap)
        awayData == CompData(comps[Len(comps) - 1], oddsMap)
        h == homeData.score
        a == awayData.score
        st == event.statusState
        post == st = "post"
        live == st # "" /\ st # "pre" /\ ~post
        decided == post /\ h # None /\ a # None
    IN [name |-> IF event.name # "" THEN <<event.name>>
                 ELSE <<awayData.teamName, " at ", homeData.teamName>>,
        homeTeam |-> homeData.teamName, awayTeam |-> awayData.teamName,
        homeTeamAbr |-> homeData.teamNameAbr, awayTeamAbr |-> awayData.teamNameAbr,
        homeLogo |-> homeData.teamLogo, awayLogo |-> awayData.teamLogo,
        homeRecord |-> homeData.teamRecord, awayRecord |-> awayData.teamRecord,
        homeScore |-> IF post \/ live THEN h ELSE None,
        awayScore |-> IF post \/ live THEN a ELSE None,
        homeStatus |-> IF decided
                       THEN (IF h[1] > a[1] THEN "winner" ELSE IF a[1] > h[1] THEN "loser" ELSE "tie")
                       ELSE IF live THEN "in-progress" ELSE "upcoming",
        awayStatus |-> IF decided
                       THEN (IF h[1] > a[1] THEN "loser" ELSE IF a[1] > h[1] THEN "winner" ELSE "tie")
                       ELSE IF live THEN "in-progress" ELSE "upcoming",
        homeOdds |-> homeData.teamOdds, awayOdds |-> awayData.teamOdds,
        homeDebugRecordUrl |-> homeData.debugRecordUrl,
        awayDebugRecordUrl |-> awayData.debugRecordUrl,
        debugOddsUrl |-> event.debugOddsUrl,
        debugStatusUrl |-> event.debugStatusUrl]

\* the Game pushed for an event that passes the guards (App.js:261-329)
GameOf(event) ==
    LET competition == event.competitions[1]
        comps == competition.competitors
        oddsMap == OddsMap(competition)
        homeData == CompData(comps[LastIndex({n \in 1..Len(comps) : comps[n].homeAway = "home"})], oddsMap)
        awayData == CompData(comps[LastIndex({n \in 1..Len(comps) : comps[n].homeAway = "away"})], oddsMap)
        h == homeData.score
        a == awayData.score
        st == event.statusState
        post == st = "post"
        live == st # "" /\ st # "pre" /\ ~post
        decided == post /\ h # None /\ a # None
    IN [name |-> IF event.name # "" THEN <<event.name>>
                 ELSE <<awayData.teamName, " at ", homeData.teamName>>,
        homeTeam |-> homeData.teamName, awayTeam |-> awayData.teamName,
        homeTeamAbr |-> homeData.teamNameAbr, awayTeamAbr |-> awayData.teamNameAbr,
        homeLogo |-> homeData.teamLogo, awayLogo |-> awayData.teamLogo,
        homeRecord |-> homeData.teamRecord, awayRecord |-> awayData.teamRecord,
        homeScore |-> IF post \/ live THEN h ELSE None,
        awayScore |-> IF post \/ live THEN a ELSE None,
        homeStatus |-> IF decided
                       THEN (IF h[1] > a[1] THEN "winner" ELSE IF a[1] > h[1] THEN "loser" ELSE "tie")
                       ELSE IF live THEN "in-progress" ELSE "upcoming",
        awayStatus |-> IF decided
                       THEN (IF h[1] > a[1] THEN "loser" ELSE IF a[1] > h[1] THEN "winner" ELSE "tie")
                       ELSE IF live THEN "in-progress" ELSE "upcoming",
        homeOdds |-> homeData.teamOdds, awayOdds |-> awayData.teamOdds,
        homeDebugRecordUrl |-> homeData.debugRecordUrl,
        awayDebugRecordUrl |-> awayData.debugRecordUrl,
        debugOddsUrl |-> event.debugOddsUrl,
        debugStatusUrl |-> event.debugStatusUrl]

RECURSIVE extractTeamsNewestFirst(_)
extractTeamsNewestFirst(evs) ==
    IF evs = <<>> THEN <<>>
    ELSE extractTeamsNewestFirst(Tail(evs))
         \o (IF EmitsGame(Head(evs)) THEN <<GameOf(Head(evs))>> ELSE <<>>)

RECURSIVE extractTeams(_)
extractTeams(evs) ==
    IF evs = <<>> THEN <<>>
    ELSE (IF EmitsGame(Head(evs)) THEN <<GameOf(Head(evs))>> ELSE <<>>)
         \o extractTeams(Tail(evs))

---------------------------------------------------------------------------
(* What the upstream API can answer.                                       *)

\* retries and the first delay of the retry loop (App.js:345-346)
retries == 5
InitialDelay == 1000

HomeTeamInline ==
    [id |-> 3, displayName |-> "Lions", abbreviation |-> "DET",
     records |-> <<[type |-> "total", name |-> Overall, summary |-> "0-0", displayValue |-> ""]>>]

\* a team that is only a reference: $ref and no id
TeamRefOnly == [ref |-> TRUE]

\* event without ids, teams without id or $ref, inline scores: nothing to fetch
dBare ==
    Event(0, "", <<Competition(0,
        <<Competitor("home", [displayName |-> "Lions"], InlineScore(24)),
          Competitor("away", [displayName |-> "Packers"], InlineScore(20))>>, <<>>)>>)

\* event with event and competition id, teams without id: odds and status
dIds ==
    Event(13, "Jets at Bills", <<Competition(113,
        <<Competitor("away", [displayName |-> "Jets"], InlineScore(10)),
          Competitor("home", [displayName |-> "Bills"], InlineScore(13))>>, <<>>)>>)

\* event without ids; both teams and the away score are references
dDeep ==
    Event(0, "", <<Competition(0,
        <<Competitor("home", TeamRefOnly, InlineScore(17)),
          Competitor("away", TeamRefOnly, RefScore)>>, <<>>)>>)

\* event with ids and an odds reference; away team and away score deferred
dFull ==
    Event(14, "", <<Competition(114,
        <<Competitor("away", TeamRefOnly, RefScore),
          Competitor("home", HomeTeamInline, InlineScore(7))>>,
        <<[ref |-> TRUE]>>)>>)

\* structurally deficient events
dNoComp == EventNoCompetitions(11)
dEmptyComp == Event(15, "", <<>>)
dNoCompetitors == Event(12, "", <<CompetitionNoCompetitors(112)>>)
dOneCompetitor ==
    Event(0, "", <<Competition(0, <<Competitor("home", [displayName |-> "Solo"], NoScore)>>, <<>>)>>)

\* a list item with neither $ref nor competitions
BareItem == [RefItem EXCEPT !.ref = FALSE]

\* bodies of an event-detail response (and the inline events of a root list)
DetailSet == {dBare, dIds, dDeep, dFull, dNoComp, dEmptyComp, dNoCompetitors, dOneCompetitor}

RootItemSet == {RefItem, BareItem} \cup DetailSet

\* bodies of a team response: with and without an id
TeamBodies ==
    { [ref |-> TRUE, id |-> 7, displayName |-> "Packers", abbreviation |-> "GB"],
      [displayName |-> "Nameless"] }

OddsEntryA ==
    [awayTeamOdds |-> [moneyLine |-> Some(150)], homeTeamOdds |-> [moneyLine |-> Some(-180)]]

\* bodies of an odds response: an object carrying items
OddsBodies == { [isArray |-> FALSE, list |-> <<>>, obj |-> [items |-> <<OddsEntryA>>]] }

\* statusData.type?.state of a status response ("" when missing)
StatusBodies == {"post", ""}

\* bodies of a record response
RecordBodies ==
    { [items |-> <<[type |-> "total", name |-> Overall, summary |-> "3-1", displayValue |-> "3-1"]>>] }

\* bodies of a score response: value present or undefined
ScoreBodies == { Some(21) }

\* String.prototype.includes (App.js:570)
includes(str, searchString) ==
    \E k \in 1..(Len(str) - Len(searchString) + 1) :
        SubSeq(str, k, k + Len(searchString) - 1) = searchString

\* the error thrown for a response that is not ok (App.js:352-354), here
\* for the status 503
HttpError == [name |-> "HttpError", message |-> "HTTP Error 503: Service Unavailable"]

\* the error fetch() rejects with (App.js:350)
TransportError == [name |-> "TransportError", message |-> "Failed to fetch"]

\* the error of reading .competitors of a missing competition (App.js:387)
TypeError ==
    [name |-> "TypeError",
     message |-> "Cannot read properties of undefined (reading 'competitors')"]

\* the message of the SyntaxError response.json() rejects with (App.js:356)
\* for a body text whose first character is no JSON token: the engine quotes
\* the text, one of 21 characters or more by its first 10
SyntaxErrorMessage(text) ==
    "Unexpected token '" \o SubSeq(text, 1, 1) \o "', \""
    \o (IF Len(text) < 21 THEN text \o "\"" ELSE SubSeq(text, 1, 10) \o "\"...")
    \o " is not valid JSON"

SyntaxError(text) == [name |-> "ParseError", message |-> SyntaxErrorMessage(text)]

\* body texts that are not JSON: a page of markup, and the plain text of
\* an error page served with status 200
Markup == "<html>"
ErrorPageText == "HTTP Error 503: Service Unavailable"
NotJson == {Markup, ErrorPageText}

\* ways a fetch fails: fetch() rejects, the response is not ok,
\* response.json() rejects for one of the body texts
FailuresWith(texts) ==
    {TransportError, HttpError} \cup {SyntaxError(text) : text \in texts}

\* the failures of fetches whose unparseable bodies are markup
FailureKinds == FailuresWith({Markup})

---------------------------------------------------------------------------
(* How many sub-resource fetches a list of events can cause (the bound     *)
(* MaxSubFetches applies to it).                                           *)

HasCompetitors(ev) ==
    /\ ev.compsPresent /\ Len(ev.competitions) > 0
    /\ ev.competitions[1].competitorsPresent

NeedsTeamFetch(comp) == Field(comp.team, "ref", FALSE) /\ Field(comp.team, "id", 0) = 0

HasOddsRef(competition) ==
    Len(competition.odds) > 0 /\ Field(competition.odds[1], "ref", FALSE)

WeightOfEvent(ev) ==
    IF ~HasCompetitors(ev) THEN 0
    ELSE LET competition == ev.competitions[1]
             comps == competition.competitors
             ids == ev.id # 0 /\ competition.id # 0
         IN (IF HasOddsRef(competition) \/ ids THEN 1 ELSE 0)
            + (IF ids THEN 1 ELSE 0)
            + SumSeq([c \in Indices(comps) |->
                  (IF NeedsTeamFetch(comps[c]) THEN 2
                   ELSE IF TeamId(comps[c]) # 0 THEN 1 ELSE 0)
                  + (IF comps[c].score.ref THEN 1 ELSE 0)])

WeightOf(evs) == SumSeq([k \in Indices(evs) |-> WeightOfEvent(evs[k])])

RootBodies ==
    {b \in UNION {[1..n -> RootItemSet] : n \in 0..MaxEvents} : WeightOf(b) <= MaxSubFetches}

---------------------------------------------------------------------------
(* The sub-resource promises.  A task key names the holder a fetch was     *)
(* started for: kind, position e of the event in the list, position c of   *)
(* the competitor (0 for an event-level fetch).                            *)

Key(kind, e, c) == [kind |-> kind, e |-> e, c |-> c]

NoBody == <<>>
PendingTask == [st |-> "pending", body |-> NoBody]

Pending == {k \in DOMAIN tasks : tasks[k].st = "pending"}
PendingOf(kind) == {k \in Pending : k.kind = kind}
KindsPending(kinds) == {k \in Pending : k.kind \in kinds}

\* the fetches in flight
Unsettled == [k \in Pending |-> PendingTask]

\* tasks with the promises of keys added, all pending
Started(keys) == Merge(tasks, [k \in keys |-> PendingTask])

Phase1Kinds == {"team"}
Phase2Kinds == {"odds", "status", "record", "score"}

\* the Level 2 fetches of attempts the retry loop has given up that have not
\* settled: nothing aborts a fetch (App.js:367), so it outlives the attempt
\* whose Promise.all another promise rejected (App.js:377).  Only Level 2
\* fetches can be in flight when an attempt is repeated, since no helper of a
\* later phase rejects.  The key keeps the position of the item and takes
\* the number of the attempt that is under way when the next list arrives.
Abandoned ==
    [k \in {k \in Pending : k.kind = "abandoned"}
            \cup {Key("abandoned", d.e, i) : d \in PendingOf("detail")} |-> PendingTask]

---------------------------------------------------------------------------
(* The patches (the bodies of the fetchAndPatch* helpers after a 2xx       *)
(* response has been parsed).                                              *)

SetCompetitor(evs, e, c, comp) ==
    [evs EXCEPT ![e].competitions[1].competitors[c] = comp]

\* comp.team = { ...comp.team, ...teamData } (App.js:398)
PatchTeam(evs, e, c, teamData) ==
    LET comp == evs[e].competitions[1].competitors[c]
    IN SetCompetitor(evs, e, c, [comp EXCEPT !.team = Merge(comp.team, teamData)])

\* newOdds (App.js:445)
NewOdds(oddsData) ==
    IF oddsData.isArray THEN oddsData.list
    ELSE IF "items" \in DOMAIN oddsData.obj THEN oddsData.obj.items
    ELSE <<oddsData.obj>>

\* Mutant of PatchOdds: the event is rebuilt around the new odds and loses
\* the status state another helper may have written
PatchOddsRebuildsEvent(evs, e, oddsData) ==
    [evs EXCEPT ![e].competitions[1].odds = NewOdds(oddsData), ![e].statusState = ""]

\* competition.odds = newOdds (App.js:446)
PatchOdds(evs, e, oddsData) ==
    [evs EXCEPT ![e].competitions[1].odds = NewOdds(oddsData)]

\* Mutant of PatchStatus: the state of the response is written whatever it is
PatchStatusUnchecked(evs, e, state) == [evs EXCEPT ![e].statusState = state]

\* if (state) event.statusState = state (App.js:469-473)
PatchStatus(evs, e, state) ==
    IF state # "" THEN [evs EXCEPT ![e].statusState = state] ELSE evs

\* recordData.items || recordData.records (App.js:508)
RecordArray(recordData) ==
    IF "items" \in DOMAIN recordData THEN Some(recordData.items)
    ELSE IF "records" \in DOMAIN recordData THEN Some(recordData.records)
    ELSE None

\* the records list of the team after fetchAndPatchRecord (App.js:504-525)
PatchedRecords(records, recordData) ==
    LET recordArray == RecordArray(recordData)
    IN IF recordArray = None THEN records
       ELSE LET fk == FirstIndex({n \in 1..Len(recordArray[1]) : IsOverallRecord(recordArray[1][n])})
                ck == FirstIndex({n \in 1..Len(records) : records[n].type = "total"})
            IN IF fk = 0 THEN records
               ELSE LET fetched == recordArray[1][fk]
                        withEntry ==
                            IF ck = 0
                            THEN Append(records, [type |-> "total", name |-> <<>>,
                                                  summary |-> "", displayValue |-> ""])
                            ELSE records
                        k == IF ck = 0 THEN Len(withEntry) ELSE ck
                    IN IF fetched.displayValue # ""
                       THEN [withEntry EXCEPT ![k].summary = fetched.displayValue]
                       ELSE IF fetched.summary # ""
                       THEN [withEntry EXCEPT ![k].summary = fetched.summary]
                       ELSE withEntry

PatchRecord(evs, e, c, recordData) ==
    LET comp == evs[e].competitions[1].competitors[c]
        records == PatchedRecords(Field(comp.team, "records", <<>>), recordData)
    IN SetCompetitor(evs, e, c,
            [comp EXCEPT !.team = Merge(comp.team, [records |-> records])])

\* if (scoreData.value !== undefined) comp.score = scoreData.value (545-547)
PatchScore(evs, e, c, scoreData) ==
    IF scoreData # None
    THEN SetCompetitor(evs, e, c,
            [evs[e].competitions[1].competitors[c] EXCEPT !.score = InlineScore(scoreData[1])])
    ELSE evs

\* the patch of a task of any kind
ApplyPatch(evs, k, body) ==
    CASE k.kind = "team" -> PatchTeam(evs, k.e, k.c, body)
      [] k.kind = "odds" -> PatchOdds(evs, k.e, body)
      [] k.kind = "status" -> PatchStatus(evs, k.e, body)
      [] k.kind = "record" -> PatchRecord(evs, k.e, k.c, body)
      [] k.kind = "score" -> PatchScore(evs, k.e, k.c, body)

---------------------------------------------------------------------------
(* The synchronous parts of fetchDeepSchedule between two awaits.          *)

\* Level 2 is entered when the first item lacks competitions (App.js:360)
NeedsLevel2(evs) == Len(evs) > 0 /\ ~evs[1].compsPresent

\* detail promises that issue a fetch: the items carrying $ref (364-368)
DetailKeys(evs) == {Key("detail", e, 0) : e \in {e \in Indices(evs) : evs[e].ref}}

\* event.competitions[0].competitors.map(...) throws a TypeError (387)
Phase1Throws(ev) == ~HasCompetitors(ev)

\* position of the first event on which the Phase 1 flatMap throws, or 0
FirstThrowing(evs) == FirstIndex({n \in 1..Len(evs) : Phase1Throws(evs[n])})

\* team fetches started by the Phase 1 flatMap over events 1..upto (386-410)
TeamKeys(evs, upto) ==
    UNION { {Key("team", e, c) :
                c \in {c \in Indices(evs[e].competitions[1].competitors) :
                          NeedsTeamFetch(evs[e].competitions[1].competitors[c])}} :
            e \in 1..upto }

\* oddsLink of an event (App.js:428-435): NoUrl when there is none
OddsLink(ev) ==
    LET competition == ev.competitions[1]
    IN IF HasOddsRef(competition) THEN OddsRefUrl(ev.id, competition.id)
       ELSE IF ev.id # 0 /\ competition.id # 0 THEN OddsUrl(ev.id, competition.id)
       ELSE NoUrl

HasStatusLink(ev) == ev.id # 0 /\ ev.competitions[1].id # 0

HasRecordUrl(comp) == TeamId(comp) # 0 /\ targetYear # 0

\* the debug markers the Phase 2 flatMap writes before any fetch settles
\* (App.js:438, 455, 462, 482, 492, 497) in a call whose targetYear is y
MarkEventIn(y, ev) ==
    LET competition == ev.competitions[1]
        marked == [c \in Indices(competition.competitors) |->
                     [competition.competitors[c] EXCEPT !.debugRecordUrl =
                        IF TeamId(competition.competitors[c]) # 0 /\ y # 0
                        THEN RecordUrl(y, TeamId(competition.competitors[c]))
                        ELSE NoUrl]]
    IN [ev EXCEPT
          !.debugOddsUrl = IF OddsLink(ev) # NoUrl THEN OddsLink(ev) ELSE OddsMissingUrl,
          !.debugStatusUrl = IF HasStatusLink(ev) THEN StatusUrl(ev.id, competition.id)
                             ELSE StatusMissingUrl,
          !.competitions[1].competitors = marked]

\* App.js:419: an event without competitions contributes nothing in Phase 2
Phase2Skips(ev) == ~ev.compsPresent \/ Len(ev.competitions) = 0

\* the markers of the call, whose targetYear is that of the render that
\* made it (App.js:119, 579)
MarkEvent(ev) == MarkEventIn(targetYear, ev)

Phase2MarksIn(y, evs) ==
    [e \in Indices(evs) |-> IF Phase2Skips(evs[e]) THEN evs[e] ELSE MarkEventIn(y, evs[e])]

Phase2Marks(evs) == Phase2MarksIn(targetYear, evs)

\* the values targetYear takes: a year of the clock or an option of the year
\* select (App.js:1012)
TargetYears == {y - n : y \in ClockYears, n \in 0..2}

\* the Game lists a call whose targetYear is y returns for the graphs given
GamesIn(y, graphs) == {extractTeams(Phase2MarksIn(y, evs)) : evs \in graphs}

\* the fetches the Phase 2 flatMap starts (App.js:418-558)
Phase2KeysOf(evs, e) ==
    IF Phase2Skips(evs[e]) THEN {}
    ELSE LET comps == evs[e].competitions[1].competitors
         IN (IF OddsLink(evs[e]) # NoUrl THEN {Key("odds", e, 0)} ELSE {})
            \cup (IF HasStatusLink(evs[e]) THEN {Key("status", e, 0)} ELSE {})
            \cup {Key("record", e, c) : c \in {c \in Indices(comps) : HasRecordUrl(comps[c])}}
            \cup {Key("score", e, c) : c \in {c \in Indices(comps) : comps[c].score.ref}}

Phase2Keys(evs) == UNION {Phase2KeysOf(evs, e) : e \in Indices(evs)}

\* detailedEvents filtered to those with a competition (App.js:377-378)
RECURSIVE DetailedEvents(_, _)
DetailedEvents(evs, e) ==
    IF e > Len(evs) THEN <<>>
    ELSE LET k == Key("detail", e, 0)
             got == k \in DOMAIN tasks /\ tasks[k].st = "ok"
                    /\ tasks[k].body.compsPresent /\ Len(tasks[k].body.competitions) > 0
         IN (IF got THEN <<tasks[k].body>> ELSE <<>>) \o DetailedEvents(evs, e + 1)

\* the detail bodies received so far, for the bound on sub-resource fetches
ReceivedDetails ==
    [n \in 1..Cardinality({k \in DOMAIN tasks : tasks[k].st = "ok" /\ k.kind = "detail"}) |->
        tasks[Key("detail",
                  SetToSeq({k.e : k \in {k \in DOMAIN tasks :
                                tasks[k].st = "ok" /\ k.kind = "detail"}})[n], 0)].body]

---------------------------------------------------------------------------
(* The call.                                                               *)

\* year and week as no fetchEvents call has closed over them yet
NoSelection == [year |-> 0, week |-> 0]

\* the schedule view before its first effect ran (App.js:108-116)
ViewUnmounted ==
    /\ requestedUrl = SCOREBOARD_URL
    /\ year = 0 /\ week = 0 /\ queryTrigger = 0
    /\ fetches = <<>>
    /\ rankedFor = NoSelection
    /\ apiUrlUsed = NoUrlUsed
    /\ loading = FALSE
    /\ error = None
    /\ gamesState = <<>>
    /\ hasAttemptedQuery = FALSE
    /\ ifpc = "idle"
    /\ result = None

\* the ranking view before fetchEvents ran (App.js:101-104)
RankUnused ==
    /\ isSpecificWeek = FALSE
    /\ upstream = None
    /\ rankingData = <<>>
    /\ rankedEvents = <<>>
    /\ isLoading = FALSE
    /\ networkError = None
    /\ modalOpen = FALSE
    /\ fepc = "idle"

Init ==
    /\ pc = "start"
    /\ i = 0
    /\ delay = InitialDelay
    /\ waits = <<>>
    /\ rootFetches = 0
    /\ rootLog = <<>>
    /\ events = <<>>
    /\ base = <<>>
    /\ tasks = <<>>
    /\ err = "none"
    /\ errSource = "none"
    /\ games = None
    /\ ViewUnmounted
    /\ RankUnused
    /\ currentYear \in ClockYears

\* the call reads the clock for nothing but the year of the record URLs
\* (App.js:119, 492), which the specification of the holders varies: here
\* the clock is in the later of its years
InitCall == Init /\ currentYear = 2026

\* the catch block of the retry loop (App.js:569-576): it goes on for any
\* error whose message includes "HTTP Error", wherever it was thrown
Throw(e, source) ==
    IF includes(e.message, "HTTP Error") /\ i < retries - 1
    THEN pc' = "backoff" /\ err' = err /\ errSource' = errSource
    ELSE pc' = "failed" /\ err' = e.name /\ errSource' = source

\* entry of the call up to the first await fetch(url) (App.js:340-350), as
\* the schedule view calls it at mount: url is requestedUrl (App.js:597)
Call ==
    /\ pc = "start"
    /\ pc' = "rootAwait"
    /\ rootFetches' = rootFetches + 1
    /\ apiUrlUsed' = requestedUrl
    /\ UNCHANGED <<i, delay, waits, rootLog, events, base, tasks, err, errSource, games>>
    /\ UNCHANGED <<requestedUrl, loading, error, gamesState, hasAttemptedQuery, ifpc, result>>
    /\ UNCHANGED <<rankVars, selectionVars>>

\* fetch(url) rejects (App.js:350)
RootTransportError ==
    /\ pc = "rootAwait"
    /\ rootLog' = Append(rootLog, "TransportError")
    /\ Throw(TransportError, "root")
    /\ UNCHANGED <<i, delay, waits, rootFetches, events, base, tasks, games>>
    /\ UNCHANGED <<viewVars, rankVars, selectionVars>>

\* the response is not ok (App.js:352-354)
RootHttpError ==
    /\ pc = "rootAwait"
    /\ rootLog' = Append(rootLog, "HttpError")
    /\ Throw(HttpError, "root")
    /\ UNCHANGED <<i, delay, waits, rootFetches, events, base, tasks, games>>
    /\ UNCHANGED <<viewVars, rankVars, selectionVars>>

\* response.json() rejects for a body text that is not JSON (App.js:356)
RootParseError(text) ==
    /\ pc = "rootAwait"
    /\ rootLog' = Append(rootLog, "ParseError")
    /\ Throw(SyntaxError(text), "root")
    /\ UNCHANGED <<i, delay, waits, rootFetches, events, base, tasks, games>>
    /\ UNCHANGED <<viewVars, rankVars, selectionVars>>

\* from App.js:383 to the next await, with the event list evs; kept are the
\* fetches in flight, to which those of the team helpers are added
EnterPhases(evs, kept) ==
    /\ events' = evs
    /\ base' = evs
    /\ IF Len(evs) = 0
       THEN /\ tasks' = kept
            /\ games' = Some(extractTeams(evs))
            /\ pc' = "done" /\ err' = err /\ errSource' = errSource
       ELSE LET t == FirstThrowing(evs)
            IN /\ tasks' = Merge(kept,
                    [k \in TeamKeys(evs, IF t = 0 THEN Len(evs) ELSE t - 1) |-> PendingTask])
               /\ games' = games
               /\ IF t = 0
                  THEN pc' = "phase1" /\ err' = err /\ errSource' = errSource
                  ELSE Throw(TypeError, "structure")

\* a 2xx root response whose body parses (App.js:356-410)
RootOk(body) ==
    /\ pc = "rootAwait"
    /\ rootLog' = Append(rootLog, "Ok")
    /\ IF NeedsLevel2(body)
       THEN /\ events' = body
            /\ tasks' = Merge(Abandoned, [k \in DetailKeys(body) |-> PendingTask])
            /\ pc' = "phase0"
            /\ UNCHANGED <<base, err, errSource, games>>
       ELSE EnterPhases(body, Abandoned)
    /\ UNCHANGED <<i, delay, waits, rootFetches>>
    /\ UNCHANGED <<viewVars, rankVars, selectionVars>>

\* Mutant of Backoff: the delay grows by a constant step instead of doubling
BackoffLinear ==
    /\ pc = "backoff"
    /\ waits' = Append(waits, delay)
    /\ delay' = delay + InitialDelay
    /\ i' = i + 1
    /\ pc' = "rootAwait" /\ rootFetches' = rootFetches + 1
    /\ UNCHANGED <<err, errSource, rootLog, events, base, tasks, games>>
    /\ UNCHANGED <<viewVars, rankVars, selectionVars>>

\* Mutant of Backoff: the timer promise is never resolved, so the loop does
\* not go on after the wait
BackoffStalls ==
    /\ pc = "backoff"
    /\ waits' = Append(waits, delay)
    /\ delay' = delay * 2
    /\ i' = i + 1
    /\ pc' = "stalled"
    /\ UNCHANGED <<rootFetches, err, errSource, rootLog, events, base, tasks, games>>
    /\ UNCHANGED <<viewVars, rankVars, selectionVars>>

\* the backoff timer fires: delay *= 2, i++, next fetch (App.js:571-572, 348)
Backoff ==
    /\ pc = "backoff"
    /\ waits' = Append(waits, delay)
    /\ delay' = delay * 2
    /\ i' = i + 1
    /\ IF i + 1 < retries
       THEN pc' = "rootAwait" /\ rootFetches' = rootFetches + 1
            /\ UNCHANGED <<err, errSource>>
       ELSE pc' = "failed" /\ err' = "ExhaustedRetries" /\ errSource' = "loop"
            /\ UNCHANGED rootFetches
    /\ UNCHANGED <<rootLog, events, base, tasks, games>>
    /\ UNCHANGED <<viewVars, rankVars, selectionVars>>

\* Mutant of Caught: every helper returns response.json() un-awaited
CaughtExceptParse(kind, outcome) == outcome.name # "ParseError"

\* which failures of a helper its try/catch swallows: every helper awaits
\* fetch and json inside try, except the Level 2 helper, which returns
\* detailResponse.json() without awaiting it (App.js:369)
Caught(kind, outcome) ==
    ~(kind \in {"detail", "abandoned"} /\ outcome.name = "ParseError")

\* the phase whose Promise.all awaits a task of this kind: none awaits a
\* fetch of an attempt that was given up
AwaitedIn(kind) ==
    IF kind = "detail" THEN "phase0"
    ELSE IF kind = "team" THEN "phase1"
    ELSE IF kind \in Phase2Kinds THEN "phase2"
    ELSE "none"

\* Mutant of SubFetchFails: the record helper resets comp.team.records
\* before it fetches, so a failed record fetch erases the records in place
SubFetchFailsErasesRecords(k, outcome) ==
    /\ k \in Pending
    /\ Caught(k.kind, outcome)
    /\ tasks' = [tasks EXCEPT ![k] = [st |-> "failed", body |-> NoBody]]
    /\ events' = IF k.kind = "record"
                 THEN SetCompetitor(events, k.e, k.c,
                        [events[k.e].competitions[1].competitors[k.c] EXCEPT
                            !.team = Merge(@, [records |-> <<>>])])
                 ELSE events
    /\ UNCHANGED <<pc, err, errSource>>
    /\ UNCHANGED <<i, delay, waits, rootFetches, rootLog, base, games>>
    /\ UNCHANGED <<viewVars, rankVars, selectionVars>>

\* tasks once the promise k settled: the promise of a fetch the loop has
\* given up is held by nothing that runs and is forgotten
SettledAs(k, st, body) ==
    IF k.kind = "abandoned" THEN [x \in DOMAIN tasks \ {k} |-> tasks[x]]
    ELSE [tasks EXCEPT ![k] = [st |-> st, body |-> body]]

\* a sub-resource fetch fails (App.js:367-374, 393-403, 441-451, 465-478,
\* 500-530, 541-550)
SubFetchFails(k, outcome) ==
    /\ k \in Pending
    /\ IF Caught(k.kind, outcome)
       THEN /\ tasks' = SettledAs(k, "failed", NoBody)
            /\ UNCHANGED <<pc, err, errSource>>
       ELSE /\ tasks' = SettledAs(k, "rejected", NoBody)
            /\ IF pc = AwaitedIn(k.kind) THEN Throw(outcome, k.kind)
               ELSE UNCHANGED <<pc, err, errSource>>
    /\ UNCHANGED <<i, delay, waits, rootFetches, rootLog, events, base, games>>
    /\ UNCHANGED <<viewVars, rankVars, selectionVars>>

\* a Level 2 detail response parses (App.js:368-369)
DetailOk(k, d) ==
    /\ k \in KindsPending({"detail", "abandoned"})
    /\ k.kind = "detail" => WeightOf(Append(ReceivedDetails, d)) <= MaxSubFetches
    /\ tasks' = SettledAs(k, "ok", d)
    /\ UNCHANGED <<pc, i, delay, waits, rootFetches, rootLog, events, base, err, errSource, games>>
    /\ UNCHANGED <<viewVars, rankVars, selectionVars>>

\* await Promise.all(detailPromises) resumes (App.js:377-410)
JoinPhase0 ==
    /\ pc = "phase0"
    /\ PendingOf("detail") = {}
    /\ EnterPhases(DetailedEvents(events, 1), Unsettled)
    /\ UNCHANGED <<i, delay, waits, rootFetches, rootLog>>
    /\ UNCHANGED <<viewVars, rankVars, selectionVars>>

\* a Phase 1 or Phase 2 helper receives and parses its body and patches
PatchSettles(k, body) ==
    /\ k \in Pending
    /\ tasks' = [tasks EXCEPT ![k] = [st |-> "ok", body |-> body]]
    /\ events' = ApplyPatch(events, k, body)
    /\ UNCHANGED <<pc, i, delay, waits, rootFetches, rootLog, base, err, errSource, games>>
    /\ UNCHANGED <<viewVars, rankVars, selectionVars>>

fetchAndPatchTeam(k, teamData) == k.kind = "team" /\ PatchSettles(k, teamData)
fetchAndPatchOdds(k, oddsData) == k.kind = "odds" /\ PatchSettles(k, oddsData)
fetchAndPatchStatus(k, state) == k.kind = "status" /\ PatchSettles(k, state)
fetchAndPatchRecord(k, recordData) == k.kind = "record" /\ PatchSettles(k, recordData)
fetchAndPatchScore(k, scoreData) == k.kind = "score" /\ PatchSettles(k, scoreData)

\* what await Promise.all(teamDetailsPromises) waits for (App.js:413)
Phase1Joined == KindsPending(Phase1Kinds) = {}

\* await Promise.all(teamDetailsPromises) resumes; Phase 2 starts (413-558)
JoinPhase1 ==
    /\ pc = "phase1"
    /\ Phase1Joined
    /\ events' = Phase2Marks(events)
    /\ tasks' = Started(Phase2Keys(events))
    /\ pc' = "phase2"
    /\ UNCHANGED <<i, delay, waits, rootFetches, rootLog, base, err, errSource, games>>
    /\ UNCHANGED <<viewVars, rankVars, selectionVars>>

\* Mutant of Phase2Joined: the competitor promises are not flattened into the
\* awaited list, so only the event-level promises are awaited
Phase2CompetitorsNotAwaited == KindsPending({"odds", "status"}) = {}

\* what await Promise.all(finalPatchPromises.flat()) waits for (App.js:557-561)
Phase2Joined == KindsPending(Phase2Kinds) = {}

\* await Promise.all(finalPatchPromises.flat()) resumes (App.js:561-567)
JoinPhase2 ==
    /\ pc = "phase2"
    /\ Phase2Joined
    /\ games' = Some(extractTeams(events))
    /\ pc' = "done"
    /\ UNCHANGED <<i, delay, waits, rootFetches, rootLog, events, base, tasks, err, errSource>>
    /\ UNCHANGED <<viewVars, rankVars, selectionVars>>

Next ==
    \/ Call
    \/ RootTransportError
    \/ RootHttpError
    \/ RootParseError(Markup)
    \/ \E body \in RootBodies : RootOk(body)
    \/ Backoff
    \/ \E k \in DOMAIN tasks, outcome \in FailureKinds : SubFetchFails(k, outcome)
    \/ \E k \in DOMAIN tasks, d \in DetailSet : DetailOk(k, d)
    \/ JoinPhase0
    \/ \E k \in DOMAIN tasks, teamData \in TeamBodies : fetchAndPatchTeam(k, teamData)
    \/ \E k \in DOMAIN tasks, oddsData \in OddsBodies : fetchAndPatchOdds(k, oddsData)
    \/ \E k \in DOMAIN tasks, state \in StatusBodies : fetchAndPatchStatus(k, state)
    \/ \E k \in DOMAIN tasks, recordData \in RecordBodies : fetchAndPatchRecord(k, recordData)
    \/ \E k \in DOMAIN tasks, scoreData \in ScoreBodies : fetchAndPatchScore(k, scoreData)
    \/ JoinPhase1
    \/ JoinPhase2

Spec == InitCall /\ [][Next]_vars

---------------------------------------------------------------------------
(* The schedule view: initializeFetch (App.js:584-616) around one awaited  *)
(* fetchDeepSchedule.  The call is awaited, so the handler sees only how   *)
(* it settled: the error it threw or the games it returned.                *)

\* the errors a fetchDeepSchedule call can end with (App.js:353, 350, 356, 387)
FetchErrors == {"HttpError", "TransportError", "ParseError", "TypeError"}

\* the Game lists a fetchDeepSchedule call can return (App.js:566-567)
FetchedGamesIn ==
    [y \in TargetYears |->
        GamesIn(y, UNION {[1..n -> {dBare, dIds, dDeep, dFull, dOneCompetitor}] :
                             n \in 0..MaxEvents})]
FetchedGames == FetchedGamesIn[targetYear]

\* the reasons initializeFetch reports (App.js:604, 613)
ZeroGamesMessage ==
    "The schedule API returned 0 games for the selected Week/Year. Data may not be available yet."
Reason(message) == <<"Failed to retrieve valid game data. Reason: ", message>>

\* the schedule view once the fetch of the scoreboard made at mount settled
\* with the games g (App.js:722-725, 597-609), when the controls have since
\* set year y, week w and queryTrigger q and the effect is at position
ViewAfterMount(g, y, w, q, position) ==
    /\ requestedUrl = RequestedUrl(y, w)
    /\ year = y /\ week = w /\ queryTrigger = q
    /\ fetches = <<[url |-> SCOREBOARD_URL, trigger |-> 0, settled |-> TRUE]>>
    /\ rankedFor = NoSelection
    /\ apiUrlUsed = SCOREBOARD_URL
    /\ loading = FALSE /\ error = None /\ gamesState = g
    /\ hasAttemptedQuery = (q > 0)
    /\ ifpc = position
    /\ result = Some([threw |-> FALSE, message |-> "", games |-> g])

\* the view when the effect is about to run initializeFetch: at mount, or
\* when, the scoreboard on screen, last year was selected (App.js:1005-1008)
\* or week 1 was selected and the fetch button clicked (App.js:729-738)
ViewBefore ==
    \/ ViewUnmounted
    \/ \E g \in FetchedGamesIn[currentYear] :
          \/ ViewAfterMount(g, currentYear - 1, 0, 0, "idle")
          \/ ViewAfterMount(g, currentYear, 1, 1, "idle")

\* the fetchDeepSchedule variables, unused while only the view is modelled
CallUnused ==
    /\ pc = "start" /\ i = 0 /\ delay = InitialDelay /\ waits = <<>>
    /\ rootFetches = 0 /\ rootLog = <<>> /\ events = <<>> /\ base = <<>>
    /\ tasks = <<>> /\ err = "none" /\ errSource = "none" /\ games = None

InitView == currentYear \in ClockYears /\ CallUnused /\ ViewBefore /\ RankUnused

\* the initializeFetch calls that await their fetchDeepSchedule call
Awaiting == {k \in Indices(fetches) : ~fetches[k].settled}

\* the call k has run to its end: the position of the calls left
Settles(k) ==
    /\ fetches' = [fetches EXCEPT ![k].settled = TRUE]
    /\ ifpc' = (IF Awaiting \ {k} = {} THEN "ended" ELSE "awaiting")

\* initializeFetch up to its await (App.js:584-597), run by the effect
\* (App.js:722-725)
initializeFetch ==
    /\ ifpc = "idle"
    /\ loading' = TRUE
    /\ error' = None
    /\ gamesState' = <<>>
    /\ ifpc' = "awaiting"
    /\ apiUrlUsed' = requestedUrl
    /\ fetches' = Append(fetches, [url |-> requestedUrl, trigger |-> queryTrigger,
                                   settled |-> FALSE])
    /\ UNCHANGED <<requestedUrl, hasAttemptedQuery, result>>
    /\ UNCHANGED <<year, week, queryTrigger, rankedFor, currentYear>>
    /\ UNCHANGED <<callVars, rankVars>>

\* Mutant of InitializeFetchResumes: the zero-games check is missing
InitializeFetchResumesUnchecked(g) ==
    /\ ifpc = "awaiting"
    /\ result' = Some([threw |-> FALSE, message |-> "", games |-> g])
    /\ \E k \in Awaiting :
          /\ hasAttemptedQuery' = (hasAttemptedQuery \/ fetches[k].url # SCOREBOARD_URL)
          /\ Settles(k)
    /\ gamesState' = g /\ error' = error
    /\ loading' = FALSE
    /\ UNCHANGED <<requestedUrl, apiUrlUsed>>
    /\ UNCHANGED <<year, week, queryTrigger, rankedFor, currentYear>>
    /\ UNCHANGED <<callVars, rankVars>>

\* fetchDeepSchedule returned { games: g } to an awaiting call, which closed
\* over its requestedUrl: App.js:597-609, and the catch block
\* (App.js:611-615) for the error thrown at App.js:604
InitializeFetchResumes(g) ==
    /\ ifpc = "awaiting"
    /\ result' = Some([threw |-> FALSE, message |-> "", games |-> g])
    /\ \E k \in Awaiting :
          LET isDeepFetch == fetches[k].url # SCOREBOARD_URL
          IN /\ hasAttemptedQuery' = (hasAttemptedQuery \/ isDeepFetch)
             /\ IF isDeepFetch /\ Len(g) = 0
                THEN error' = Some(Reason(ZeroGamesMessage)) /\ gamesState' = gamesState
                ELSE gamesState' = g /\ error' = error
             /\ Settles(k)
    /\ loading' = FALSE
    /\ UNCHANGED <<requestedUrl, apiUrlUsed>>
    /\ UNCHANGED <<year, week, queryTrigger, rankedFor, currentYear>>
    /\ UNCHANGED <<callVars, rankVars>>

\* Mutant of InitializeFetchCatches: the catch block leaves loading set
InitializeFetchCatchesStaysLoading(message) ==
    /\ ifpc = "awaiting"
    /\ result' = Some([threw |-> TRUE, message |-> message, games |-> <<>>])
    /\ error' = Some(Reason(message))
    /\ loading' = loading
    /\ \E k \in Awaiting : Settles(k)
    /\ UNCHANGED <<requestedUrl, gamesState, hasAttemptedQuery, apiUrlUsed>>
    /\ UNCHANGED <<year, week, queryTrigger, rankedFor, currentYear>>
    /\ UNCHANGED <<callVars, rankVars>>

\* fetchDeepSchedule threw: the catch block (App.js:611-615)
InitializeFetchCatches(message) ==
    /\ ifpc = "awaiting"
    /\ result' = Some([threw |-> TRUE, message |-> message, games |-> <<>>])
    /\ error' = Some(Reason(message))
    /\ loading' = FALSE
    /\ \E k \in Awaiting : Settles(k)
    /\ UNCHANGED <<requestedUrl, gamesState, hasAttemptedQuery, apiUrlUsed>>
    /\ UNCHANGED <<year, week, queryTrigger, rankedFor, currentYear>>
    /\ UNCHANGED <<callVars, rankVars>>

NextView ==
    \/ initializeFetch
    \/ \E g \in FetchedGames : InitializeFetchResumes(g)
    \/ \E message \in FetchErrors : InitializeFetchCatches(message)

SpecView == InitView /\ [][NextView]_vars

---------------------------------------------------------------------------
(* JavaScript values of the scoreboard body and the conversions applied to *)
(* them.  A value is [t, n, s]: the number n when t = "number", the string *)
(* of characters s when t = "string".  NaN is <<>>, a number n is <<n>>.   *)

JsNum(n) == [t |-> "number", n |-> n, s |-> <<>>]
JsStr(str) == [t |-> "string", n |-> 0, s |-> str]

\* ToBoolean of a value: 0 and the empty string are falsy
Truthy(v) == IF v.t = "number" THEN v.n # 0 ELSE v.s # <<>>

\* ToString of a value
ToStr(v) == IF v.t = "number" THEN NumStr(v.n) ELSE v.s

IsDigit(c) == c \in {"0", "1", "2", "3", "4", "5", "6", "7", "8", "9"}

DigitVal(c) == CHOOSE d \in 0..9 : DigitChar(d) = c

\* the white space parseInt skips, of the characters a string of the model
\* can hold: space, tab, line feed, vertical tab (U+000B, written as the
\* character itself), form feed, carriage return; the white space outside
\* ASCII (U+00A0, U+FEFF, U+2028 and the like) is skipped by the code as
\* well and is not a character of the model's strings
WhiteSpace == {" ", "\t", "\n", "", "\f", "\r"}

RECURSIVE SkipSpaces(_)
\* parseInt skips leading white space
SkipSpaces(str) ==
    IF str # <<>> /\ Head(str) \in WhiteSpace THEN SkipSpaces(Tail(str)) ELSE str

RECURSIVE LeadingDigits(_)
\* the longest prefix of str made of decimal digits
LeadingDigits(str) ==
    IF str # <<>> /\ IsDigit(Head(str)) THEN <<Head(str)>> \o LeadingDigits(Tail(str))
    ELSE <<>>

RECURSIVE DigitsValue(_, _)
DigitsValue(str, acc) ==
    IF str = <<>> THEN acc ELSE DigitsValue(Tail(str), acc * 10 + DigitVal(Head(str)))

\* parseInt(str, 10) of a string of characters: leading blanks, an optional
\* sign, then the leading digits; NaN when there is no digit
parseInt(str) ==
    LET t == SkipSpaces(str)
        signed == t # <<>> /\ Head(t) \in {"+", "-"}
        body == LeadingDigits(IF signed THEN Tail(t) ELSE t)
    IN IF body = <<>> THEN None
       ELSE Some((IF signed /\ Head(t) = "-" THEN -1 ELSE 1) * DigitsValue(body, 0))

RECURSIVE replace(_, _)
\* String.prototype.replace(c, ''): the first occurrence of c is removed
replace(str, c) ==
    IF str = <<>> THEN <<>>
    ELSE IF Head(str) = c THEN Tail(str)
    ELSE <<Head(str)>> \o replace(Tail(str), c)

TossUp == "Toss-Up / N/A"

---------------------------------------------------------------------------
(* Winner determination and ranking (App.js:11-96, 640-685).               *)
(*   scoreboard event  [id, competitions, status]; status is <<>> when the *)
(*                     event has no status object, else <<detail>>         *)
(*   competition       [competitorsPresent, competitors, odds]             *)
(*   competitor        [homeAway, team]; team carries the properties       *)
(*                     present                                             *)
(*   odds entry        the properties present among awayTeamOdds and       *)
(*                     homeTeamOdds, each the properties present among     *)
(*                     moneyLine (a JavaScript value)                      *)
(*   ranking item      [id, awayTeam, homeTeam, awayOdds, homeOdds,        *)
(*                     expectedWinner, winnerLine, status, confidenceRank] *)
(*                     expectedWinner is <<>> for null, else <<string>>    *)

\* oddsData?.awayTeamOdds?.moneyLine || null (App.js:30-31): <<>> is null
MoneyLineOf(oddsList, side) ==
    IF Len(oddsList) > 0 /\ side \in DOMAIN oddsList[1]
       /\ "moneyLine" \in DOMAIN oddsList[1][side]
       /\ Truthy(oddsList[1][side].moneyLine)
    THEN Some(oddsList[1][side].moneyLine)
    ELSE None

\* awayOddsStr ? parseInt(awayOddsStr, 10) : NaN (App.js:34-35)
LineNum(oddsStr) == IF oddsStr # None THEN parseInt(ToStr(oddsStr[1])) ELSE None

transformWinnerTieToAway(awayLineNum, homeLineNum, awayTeamAbbr, homeTeamAbbr) ==
    LET away == [expectedWinner |-> Some(awayTeamAbbr), winnerLine |-> awayLineNum]
        home == [expectedWinner |-> Some(homeTeamAbbr), winnerLine |-> homeLineNum]
        neither == [expectedWinner |-> Some(TossUp), winnerLine |-> None]
    IN IF awayLineNum # None /\ homeLineNum # None
       THEN IF awayLineNum[1] < 0 \/ homeLineNum[1] < 0
            THEN (IF awayLineNum[1] < homeLineNum[1] THEN away ELSE home)
            ELSE IF awayLineNum[1] > 0 /\ homeLineNum[1] > 0
            THEN (IF awayLineNum[1] <= homeLineNum[1] THEN away ELSE home)
            ELSE neither
       ELSE neither

\* expectedWinner and winnerLine of transformEvents (App.js:37-60)
transformWinner(awayLineNum, homeLineNum, awayTeamAbbr, homeTeamAbbr) ==
    LET away == [expectedWinner |-> Some(awayTeamAbbr), winnerLine |-> awayLineNum]
        home == [expectedWinner |-> Some(homeTeamAbbr), winnerLine |-> homeLineNum]
        neither == [expectedWinner |-> Some(TossUp), winnerLine |-> None]
    IN IF awayLineNum # None /\ homeLineNum # None
       THEN IF awayLineNum[1] < 0 \/ homeLineNum[1] < 0
            THEN (IF awayLineNum[1] < homeLineNum[1] THEN away ELSE home)
            ELSE IF awayLineNum[1] > 0 /\ homeLineNum[1] > 0
            THEN (IF awayLineNum[1] < homeLineNum[1] THEN away ELSE home)
            ELSE neither
       ELSE neither

\* the competitors of a scoreboard event, <<>> when there is no competition
\* or it has no competitors list (App.js:15-16)
SbCompetitors(event) ==
    IF Len(event.competitions) > 0 /\ event.competitions[1].competitorsPresent
    THEN event.competitions[1].competitors
    ELSE <<>>

\* App.js:20: the event maps to null and is filtered out
TransformSkips(event) == Len(SbCompetitors(event)) < 2

\* team?.abbreviation || dflt of the first competitor of a role (23-27)
SbAbbr(competitors, role, dflt) ==
    LET k == FirstIndex({n \in 1..Len(competitors) : competitors[n].homeAway = role})
    IN IF k # 0 /\ Field(competitors[k].team, "abbreviation", "") # ""
       THEN competitors[k].team.abbreviation
       ELSE dflt

\* the item transformEvents maps one event to (App.js:22-72)
TransformItem(event) ==
    LET competitors == SbCompetitors(event)
        oddsList == event.competitions[1].odds
        awayTeamAbbr == SbAbbr(competitors, "away", "AWY")
        homeTeamAbbr == SbAbbr(competitors, "home", "HOM")
        awayOddsStr == MoneyLineOf(oddsList, "awayTeamOdds")
        homeOddsStr == MoneyLineOf(oddsList, "homeTeamOdds")
        w == transformWinner(LineNum(awayOddsStr), LineNum(homeOddsStr),
                             awayTeamAbbr, homeTeamAbbr)
    IN [id |-> event.id,
        awayTeam |-> awayTeamAbbr, homeTeam |-> homeTeamAbbr,
        awayOdds |-> awayOddsStr, homeOdds |-> homeOddsStr,
        expectedWinner |-> w.expectedWinner, winnerLine |-> w.winnerLine,
        status |-> event.status[1],
        confidenceRank |-> None]

\* event.status.type.detail throws a TypeError (App.js:70)
TransformThrows(body) ==
    /\ body.events # None
    /\ \E k \in Indices(body.events[1]) :
          ~TransformSkips(body.events[1][k]) /\ body.events[1][k].status = None

RECURSIVE TransformList(_)
TransformList(evs) ==
    IF evs = <<>> THEN <<>>
    ELSE (IF TransformSkips(Head(evs)) THEN <<>> ELSE <<TransformItem(Head(evs))>>)
         \o TransformList(Tail(evs))

\* transformEvents (App.js:11-74) of a body on which it does not throw;
\* body.events is <<>> when the body has no events property
transformEvents(body) ==
    IF body.events = None THEN <<>> ELSE TransformList(body.events[1])

\* expectedWinner and winnerLine of the deep-fetch ranking path
\* (App.js:642-669)
rankingWinner(game) ==
    LET awayOddsNum == parseInt(replace(game.awayOdds, "+"))
        homeOddsNum == parseInt(replace(game.homeOdds, "+"))
        initial == IF game.homeOdds = NAStr /\ game.awayOdds = NAStr
                   THEN Some(TossUp) ELSE None
        away == [expectedWinner |-> Some(game.awayTeamAbr), winnerLine |-> awayOddsNum]
        home == [expectedWinner |-> Some(game.homeTeamAbr), winnerLine |-> homeOddsNum]
    IN IF awayOddsNum # None /\ homeOddsNum # None
       THEN IF awayOddsNum[1] < 0 \/ homeOddsNum[1] < 0
            THEN (IF awayOddsNum[1] < homeOddsNum[1] THEN away ELSE home)
            ELSE IF awayOddsNum[1] > 0 /\ homeOddsNum[1] > 0
            THEN (IF awayOddsNum[1] < homeOddsNum[1] THEN away ELSE home)
            ELSE [expectedWinner |-> initial, winnerLine |-> None]
       ELSE [expectedWinner |-> IF initial = None THEN Some(TossUp) ELSE initial,
             winnerLine |-> None]

\* the item the ranking path maps one Game to (App.js:640-682)
RankingItem(game) ==
    LET w == rankingWinner(game)
    IN [id |-> <<game.awayTeam, "-", game.homeTeam>>,
        awayTeam |-> game.awayTeamAbr, homeTeam |-> game.homeTeamAbr,
        awayOdds |-> game.awayOdds, homeOdds |-> game.homeOdds,
        expectedWinner |-> w.expectedWinner, winnerLine |-> w.winnerLine,
        status |-> game.homeStatus,
        confidenceRank |-> None]

\* e.expectedWinner !== 'Toss-Up / N/A' && !isNaN(e.winnerLine) (App.js:79)
Rankable(e) == e.expectedWinner # Some(TossUp) /\ e.winnerLine # None

RECURSIVE InsertByLineBeforeEqual(_, _, _)
InsertByLineBeforeEqual(sorted, k, evs) ==
    IF sorted = <<>> THEN <<k>>
    ELSE IF evs[Head(sorted)].winnerLine[1] - evs[k].winnerLine[1] >= 0
    THEN <<k>> \o sorted
    ELSE <<Head(sorted)>> \o InsertByLineBeforeEqual(Tail(sorted), k, evs)

RECURSIVE InsertByLine(_, _, _)
\* positions sorted by winnerLine with position k inserted after every
\* position whose line is not greater: a stable ascending sort (App.js:83)
InsertByLine(sorted, k, evs) ==
    IF sorted = <<>> THEN <<k>>
    ELSE IF evs[Head(sorted)].winnerLine[1] - evs[k].winnerLine[1] > 0
    THEN <<k>> \o sorted
    ELSE <<Head(sorted)>> \o InsertByLine(Tail(sorted), k, evs)

RECURSIVE SortedPositions(_, _)
\* the positions of the rankable events among the first upto, in sorted order
SortedPositions(evs, upto) ==
    IF upto = 0 THEN <<>>
    ELSE IF Rankable(evs[upto])
    THEN InsertByLine(SortedPositions(evs, upto - 1), upto, evs)
    ELSE SortedPositions(evs, upto - 1)

rankEventsFromZero(evs) ==
    LET sorted == SortedPositions(evs, Len(evs))
        totalGames == Len(sorted)
    IN [index \in 1..totalGames |->
          [evs[sorted[index]] EXCEPT !.confidenceRank = Some(totalGames - index)]]

\* rankEvents (App.js:77-96): the rankable events in sorted order, each
\* with confidenceRank = totalGames - index
rankEvents(evs) ==
    LET sorted == SortedPositions(evs, Len(evs))
        totalGames == Len(sorted)
    IN [index \in 1..totalGames |->
          [evs[sorted[index]] EXCEPT !.confidenceRank = Some(totalGames - (index - 1))]]

\* the list passed to rankEvents afterwards: rankEvents writes the rank
\* into the event objects themselves (App.js:92)
AfterRankEvents(evs) ==
    LET sorted == SortedPositions(evs, Len(evs))
        totalGames == Len(sorted)
    IN [k \in Indices(evs) |->
          IF Rankable(evs[k])
          THEN [evs[k] EXCEPT !.confidenceRank =
                  Some(totalGames - (FirstIndex({n \in 1..totalGames : sorted[n] = k}) - 1))]
          ELSE evs[k]]

---------------------------------------------------------------------------
(* What upstream can deliver to the ranking view.                          *)

\* a moneyLine property of the scoreboard body: absent (<<>>), a number, or
\* a string
SbLines ==
    {None, Some(JsNum(-150)), Some(JsStr(NumStr(-110))), Some(JsNum(0)),
     Some(JsStr(<<"+">> \o NumStr(105))), Some(JsNum(120)),
     Some(JsStr(<<"E", "V", "E", "N">>))}

\* one side of a scoreboard odds entry: the moneyLine property when present
SbSideOdds(line) == IF line = None THEN <<>> ELSE [moneyLine |-> line[1]]

SbCompetitor(role, team) == [homeAway |-> role, team |-> team]

SbCompetition(competitors, odds) ==
    [competitorsPresent |-> TRUE, competitors |-> competitors, odds |-> odds]

\* a scoreboard event with both teams and one odds entry
SbEvent(id, awayLine, homeLine) ==
    [id |-> id,
     competitions |-> <<SbCompetition(
        <<SbCompetitor("away", [abbreviation |-> "NYJ"]),
          SbCompetitor("home", [abbreviation |-> "BUF"])>>,
        <<[awayTeamOdds |-> SbSideOdds(awayLine), homeTeamOdds |-> SbSideOdds(homeLine)]>>)>>,
     status |-> Some("Final")]

\* the shapes of a scoreboard event: both teams and an odds entry with the
\* two lines, or, with fixed lines, no odds entry, home listed first and
\* teams without abbreviation, one competitor only, no status object
SbShapes ==
    {[shape |-> "odds", away |-> awayLine, home |-> homeLine] :
        awayLine \in SbLines, homeLine \in SbLines}
    \cup {[shape |-> sh, away |-> Some(JsNum(-150)), home |-> Some(JsNum(120))] :
            sh \in {"noOdds", "homeFirst", "oneCompetitor", "noStatus"}}

SbEventOf(id, d) ==
    LET ev == SbEvent(id, d.away, d.home)
    IN CASE d.shape = "odds" -> ev
         [] d.shape = "noOdds" -> [ev EXCEPT !.competitions[1].odds = <<>>]
         [] d.shape = "homeFirst" ->
                [ev EXCEPT !.competitions[1].competitors =
                    <<SbCompetitor("home", <<>>), SbCompetitor("away", <<>>)>>]
         [] d.shape = "oneCompetitor" ->
                [ev EXCEPT !.competitions[1].competitors = <<SbCompetitor("home", <<>>)>>]
         [] d.shape = "noStatus" -> [ev EXCEPT !.status = None]

\* the shapes of the events after the first of a list: a favorite, equal
\* lines, two positive lines, an unparseable line
SbFollowers ==
    {[shape |-> "odds", away |-> Some(JsNum(-150)), home |-> Some(JsNum(120))],
     [shape |-> "odds", away |-> Some(JsStr(NumStr(-110))), home |-> Some(JsStr(NumStr(-110)))],
     [shape |-> "odds", away |-> Some(JsStr(<<"+">> \o NumStr(105))), home |-> Some(JsNum(120))],
     [shape |-> "odds", away |-> Some(JsStr(<<"E", "V", "E", "N">>)), home |-> Some(JsNum(-150))]}

\* the lists of shapes: the first event of any shape, the others of the
\* shapes above
SbLists ==
    {<<>>} \cup
    {<<first>> \o rest :
        first \in SbShapes,
        rest \in UNION {[1..n -> SbFollowers] : n \in 0..(MaxRankEvents - 1)}}

\* the parsed bodies of the scoreboard response (App.js:697): an object
\* without events, or with a list of up to MaxRankEvents events
ScoreboardBodies ==
    {[events |-> None]} \cup
    {[events |-> Some([k \in DOMAIN d |-> SbEventOf(k, d[k])])] : d \in SbLists}

\* a moneyLine property of a resolved odds entry: absent (<<>>) or a number
DeepLines == {None, Some(-150), Some(-110), Some(0), Some(105), Some(120)}

DeepSideOdds(line) == IF line = None THEN <<>> ELSE [moneyLine |-> line]

AwayNames == <<"Jets", "Bears", "Rams", "Colts">>
HomeNames == <<"Bills", "Lions", "Chiefs", "Titans">>

\* a resolved event of the deep fetch with both teams and one odds entry
DeepEvent(id, awayLine, homeLine) ==
    Event(id, "", <<Competition(100 + id,
        <<Competitor("away", [id |-> 1, displayName |-> AwayNames[id], abbreviation |-> "NYJ"], NoScore),
          Competitor("home", [id |-> 2, displayName |-> HomeNames[id], abbreviation |-> "BUF"], NoScore)>>,
        <<[awayTeamOdds |-> DeepSideOdds(awayLine), homeTeamOdds |-> DeepSideOdds(homeLine)]>>)>>)

\* the shapes of a resolved event: both teams and an odds entry with the
\* two lines, or, with fixed lines, no odds entry, the away team without an
\* id, one competitor only
DeepShapes ==
    {[shape |-> "odds", away |-> awayLine, home |-> homeLine] :
        awayLine \in DeepLines, homeLine \in DeepLines}
    \cup {[shape |-> sh, away |-> Some(-150), home |-> Some(120)] :
            sh \in {"noOdds", "noTeamId", "oneCompetitor"}}

DeepEventOf(id, d) ==
    LET ev == DeepEvent(id, d.away, d.home)
    IN CASE d.shape = "odds" -> ev
         [] d.shape = "noOdds" -> [ev EXCEPT !.competitions[1].odds = <<>>]
         [] d.shape = "noTeamId" ->
                [ev EXCEPT !.competitions[1].competitors[1].team =
                    [displayName |-> AwayNames[id]]]
         [] d.shape = "oneCompetitor" ->
                [ev EXCEPT !.competitions[1].competitors = <<@[2]>>]

\* the shapes of the events after the first of a list: a favorite, equal
\* lines, two positive lines, a missing line
DeepFollowers ==
    {[shape |-> "odds", away |-> Some(-150), home |-> Some(120)],
     [shape |-> "odds", away |-> Some(-110), home |-> Some(-110)],
     [shape |-> "odds", away |-> Some(105), home |-> Some(120)],
     [shape |-> "odds", away |-> None, home |-> Some(-150)]}

DeepLists ==
    {<<>>} \cup
    {<<first>> \o rest :
        first \in DeepShapes,
        rest \in UNION {[1..n -> DeepFollowers] : n \in 0..(MaxRankEvents - 1)}}

\* the event graphs a fetchDeepSchedule call of the ranking view normalizes
DeepGraphs == {[k \in DOMAIN d |-> DeepEventOf(k, d[k])] : d \in DeepLists}

\* the messages of the errors the fetch of the ranking view can end with
\* (App.js:691, 694, 697 and the errors of fetchDeepSchedule)
RankFetchErrors == {"TransportError", "HTTP error! Status", "ParseError"}

\* Mutant of MainScreen: the controls stay on screen while loading
MainScreenWhileLoading == error = None

\* the render gets past the loading screen and the error screen
\* (App.js:941-968) to the controls, the ranking button and the modal
MainScreen == ~loading /\ error = None

\* the effect runs initializeFetch after the render that changed one of its
\* dependencies (App.js:722-725), before the next event is handled
EffectRan == ifpc # "idle"

NoGamesMessage == "No games found for this specific week/year to rank."
NetworkReason(message) == <<"Error fetching rankings: ", message, ".">>

---------------------------------------------------------------------------
(* The ranking view: fetchEvents (App.js:622-718).                         *)

\* rankingUrl (App.js:132-135): the URL of the selected week, which is the
\* requestedUrl of the schedule view, or API_URL when no week is selected
rankingUrl == IF year # 0 /\ week # 0 THEN RequestedUrl(year, week) ELSE API_URL

\* the games the fetch before delivered here
MountGames == extractTeams(Phase2Marks(<<dBare>>))

\* the schedule view with the games of the mount fetch on screen
ViewLoaded(y, position) == ViewAfterMount(MountGames, y, 0, 0, position)

\* the schedule view once week 1 was selected after that, the fetch button
\* clicked (App.js:729-738) and the fetch of the week settled with games
ViewWeekFetched ==
    /\ requestedUrl = RequestedUrl(currentYear, 1)
    /\ year = currentYear /\ week = 1 /\ queryTrigger = 1
    /\ fetches = <<[url |-> SCOREBOARD_URL, trigger |-> 0, settled |-> TRUE],
                   [url |-> requestedUrl, trigger |-> 1, settled |-> TRUE]>>
    /\ rankedFor = NoSelection
    /\ apiUrlUsed = requestedUrl
    /\ loading = FALSE /\ error = None /\ gamesState = MountGames
    /\ hasAttemptedQuery = TRUE
    /\ ifpc = "ended"
    /\ result = Some([threw |-> FALSE, message |-> "", games |-> MountGames])

\* the component when the ranking button is clicked first: the schedule is
\* on screen, for the scoreboard or for a week
InitRank ==
    /\ CallUnused /\ RankUnused
    /\ currentYear \in ClockYears
    /\ ViewLoaded(0, "ended") \/ ViewWeekFetched

\* Mutant of fetchEvents: the ranking view goes through fetchDeepSchedule
\* whether or not a week is selected
fetchEventsAlwaysDeep ==
    /\ ~isLoading
    /\ isLoading' = TRUE
    /\ networkError' = None
    /\ rankedEvents' = <<>>
    /\ isSpecificWeek' = (year # 0 /\ week # 0)
    /\ rankedFor' = [year |-> year, week |-> week]
    /\ upstream' = None
    /\ rankingData' = <<>>
    /\ fepc' = "awaiting"
    /\ apiUrlUsed' = rankingUrl
    /\ UNCHANGED modalOpen
    /\ UNCHANGED <<requestedUrl, loading, error, gamesState, hasAttemptedQuery, ifpc, result>>
    /\ UNCHANGED <<year, week, queryTrigger, fetches, currentYear>>
    /\ UNCHANGED callVars

\* fetchEvents up to its await (App.js:622-633, 691), run by a click on the
\* ranking button, which is disabled while isLoading (App.js:1248-1249)
fetchEvents ==
    /\ ~isLoading
    /\ isLoading' = TRUE
    /\ networkError' = None
    /\ rankedEvents' = <<>>
    /\ isSpecificWeek' = (year # 0 /\ week # 0)
    /\ rankedFor' = [year |-> year, week |-> week]
    /\ upstream' = None
    /\ rankingData' = <<>>
    /\ fepc' = "awaiting"
    /\ apiUrlUsed' = (IF isSpecificWeek' THEN rankingUrl ELSE apiUrlUsed)
    /\ UNCHANGED modalOpen
    /\ UNCHANGED <<requestedUrl, loading, error, gamesState, hasAttemptedQuery, ifpc, result>>
    /\ UNCHANGED <<year, week, queryTrigger, fetches, currentYear>>
    /\ UNCHANGED callVars

\* item.expectedWinner !== 'Toss-Up / N/A' (App.js:685)
NotTossUp(item) == item.expectedWinner # Some(TossUp)

\* rankingData after rankEvents ran on its filtered copy: the copy shares
\* the item objects, so the ranks written by rankEvents show in rankingData
AfterRankFiltered(items) ==
    LET kept == SetToSeq({k \in Indices(items) : NotTossUp(items[k])})
        after == AfterRankEvents([n \in Indices(kept) |-> items[kept[n]]])
    IN [k \in Indices(items) |->
          IF NotTossUp(items[k])
          THEN after[FirstIndex({n \in 1..Len(kept) : kept[n] = k})]
          ELSE items[k]]

\* the catch and finally blocks (App.js:710-717)
FetchEventsFails(message) ==
    /\ networkError' = Some(NetworkReason(message))
    /\ modalOpen' = TRUE
    /\ isLoading' = FALSE
    /\ fepc' = "ended"

\* the try block ran to its end (App.js:687, 705, 708, 716)
FetchEventsShows(items, ranked) ==
    /\ rankingData' = items
    /\ rankedEvents' = ranked
    /\ networkError' = networkError
    /\ modalOpen' = TRUE
    /\ isLoading' = FALSE
    /\ fepc' = "ended"

\* fetchDeepSchedule returned the games of the graph evs (App.js:633-687)
FetchEventsRanksDeep(evs) ==
    /\ fepc = "awaiting" /\ isSpecificWeek
    /\ upstream' = Some(evs)
    /\ LET resultGames == extractTeams(evs)
           items == [k \in Indices(resultGames) |-> RankingItem(resultGames[k])]
       IN IF Len(resultGames) = 0
          THEN FetchEventsFails(NoGamesMessage) /\ UNCHANGED <<rankingData, rankedEvents>>
          ELSE FetchEventsShows(AfterRankFiltered(items),
                                rankEvents(SelectSeq(items, NotTossUp)))
    /\ UNCHANGED isSpecificWeek
    /\ UNCHANGED <<callVars, viewVars, selectionVars>>

\* the scoreboard response was ok and parsed to body (App.js:691-705)
FetchEventsRanksScoreboard(body) ==
    /\ fepc = "awaiting" /\ ~isSpecificWeek
    /\ upstream' = Some(body)
    /\ IF TransformThrows(body)
       THEN FetchEventsFails("TypeError") /\ UNCHANGED <<rankingData, rankedEvents>>
       ELSE FetchEventsShows(AfterRankEvents(transformEvents(body)),
                             rankEvents(transformEvents(body)))
    /\ UNCHANGED isSpecificWeek
    /\ UNCHANGED <<callVars, viewVars, selectionVars>>

\* the awaited fetch failed: fetchDeepSchedule threw, fetch or json rejected,
\* or the response was not ok (App.js:633, 691-697, 710-717)
FetchEventsCatches(message) ==
    /\ fepc = "awaiting"
    /\ message \in (IF isSpecificWeek THEN FetchErrors ELSE RankFetchErrors)
    /\ FetchEventsFails(message)
    /\ UNCHANGED <<isSpecificWeek, upstream, rankingData, rankedEvents>>
    /\ UNCHANGED <<callVars, viewVars, selectionVars>>

\* the awaited fetch of the ranking view is in flight
RankAwaiting == fepc = "awaiting"

\* the ranking view has made no request yet
RankIdle == fepc = "idle"

NextRank ==
    \/ MainScreen /\ EffectRan /\ RankIdle /\ fetchEvents
    \/ RankAwaiting /\ \E evs \in DeepGraphs : FetchEventsRanksDeep(evs)
    \/ RankAwaiting /\ \E body \in ScoreboardBodies : FetchEventsRanksScoreboard(body)
    \/ \E message \in FetchErrors \cup RankFetchErrors : FetchEventsCatches(message)

SpecRank == InitRank /\ [][NextRank]_vars

---------------------------------------------------------------------------
(* What the awaited calls of the two views deliver when both views are in  *)
(* use.                                                                    *)

\* the Game lists the schedule view's call returns here
SharedGamesIn == [y \in TargetYears |-> GamesIn(y, {<<>>, <<dBare>>, <<dIds, dFull>>})]
SharedGames == SharedGamesIn[targetYear]

\* the graphs the ranking view's call normalizes here
SharedGraphs ==
    {[k \in DOMAIN d |-> DeepEventOf(k, d[k])] : d \in {<<>>} \cup {<<f>> : f \in DeepFollowers}}

\* the scoreboard bodies the ranking view receives here
SharedBodies ==
    {[events |-> None]} \cup
    {[events |-> Some([k \in DOMAIN d |-> SbEventOf(k, d[k])])] : d \in {<<f>> : f \in SbFollowers}}

---------------------------------------------------------------------------
(* The normalizer alone: extractTeams applied to a resolved graph as the   *)
(* call does before it returns (App.js:566).                               *)

\* statusState of a resolved event: "" when the property is absent or empty
NormalizeStates == {"", "pre", "post", "in", "half"}

\* the score property of a resolved competitor: absent, still a reference,
\* or a number
NormalizeScores == {NoScore, RefScore, InlineScore(0), InlineScore(20), InlineScore(24)}

\* a resolved event with both teams, or with the home team only
NormalizeEvent(id, d) ==
    [Event(id, "", <<Competition(100 + id,
        (IF d.both
         THEN <<Competitor("away", [displayName |-> AwayNames[id]], d.away)>>
         ELSE <<>>)
        \o <<Competitor("home", [displayName |-> HomeNames[id]], d.home)>>,
        <<>>)>>) EXCEPT !.statusState = d.st]

NormalizeShapes ==
    [st : NormalizeStates, away : NormalizeScores, home : NormalizeScores, both : {TRUE}]

\* the shapes of the events after the first of a list
NormalizeFollowers ==
    {[st |-> "post", away |-> InlineScore(20), home |-> InlineScore(24), both |-> TRUE],
     [st |-> "pre", away |-> InlineScore(0), home |-> InlineScore(0), both |-> TRUE],
     [st |-> "in", away |-> InlineScore(20), home |-> NoScore, both |-> TRUE],
     [st |-> "post", away |-> NoScore, home |-> InlineScore(24), both |-> FALSE]}

\* lists of at least one event: the call awaits Phase 2 for no other
NormalizeLists ==
    {<<first>> \o rest :
        first \in NormalizeShapes \cup NormalizeFollowers,
        rest \in UNION {[1..n -> NormalizeFollowers] : n \in 0..(MaxNormalizeEvents - 1)}}

\* the graphs the call resolves
NormalizeGraphs == {[k \in DOMAIN d |-> NormalizeEvent(k, d[k])] : d \in NormalizeLists}

\* the schedule view as the call made at mount leaves it at its entry: the
\* URL is recorded (App.js:343)
ViewCalled ==
    /\ requestedUrl = SCOREBOARD_URL
    /\ year = 0 /\ week = 0 /\ queryTrigger = 0
    /\ fetches = <<>>
    /\ rankedFor = NoSelection
    /\ apiUrlUsed = requestedUrl
    /\ loading = FALSE
    /\ error = None
    /\ gamesState = <<>>
    /\ hasAttemptedQuery = FALSE
    /\ ifpc = "idle"
    /\ result = None

\* the call at its last await (App.js:561) with the graph g resolved, after
\* a first root response that held the events of g inline: Phase 2 has
\* written its markers (App.js:438-497), the status fetch of each event that
\* has a state delivered it (App.js:469-473), and every other Phase 2 fetch
\* failed and left its holder as the response had it; g has an event, as
\* the call skips the phases for an empty list (App.js:383)
LastAwait(g) ==
    /\ Len(g) > 0
    /\ pc = "phase2" /\ i = 0 /\ delay = InitialDelay /\ waits = <<>>
    /\ rootFetches = 1 /\ rootLog = <<"Ok">>
    /\ base = [e \in Indices(g) |-> [g[e] EXCEPT !.statusState = ""]]
    /\ events = Phase2Marks(g)
    /\ tasks = [k \in Phase2Keys(g) |->
                  IF k.kind = "status" /\ g[k.e].statusState # ""
                  THEN [st |-> "ok", body |-> g[k.e].statusState]
                  ELSE [st |-> "failed", body |-> NoBody]]
    /\ err = "none" /\ errSource = "none" /\ games = None

\* the call when all patches have settled and extractTeams is about to run
InitNormalize ==
    /\ currentYear \in ClockYears
    /\ ViewCalled /\ RankUnused
    /\ \E g \in NormalizeGraphs : LastAwait(g)

\* the one step left is the last join of the call, which runs extractTeams
\* and returns (App.js:561-567)
NextNormalize == JoinPhase2

SpecNormalize == InitNormalize /\ [][NextNormalize]_vars

---------------------------------------------------------------------------
(* The normalizer on events with varied competitors, team names and odds.  *)

AwayShorts == <<"NY Jets", "Chi Bears", "LA Rams", "Ind Colts">>
HomeShorts == <<"Buf Bills", "Det Lions", "KC Chiefs", "Ten Titans">>
AwayAbbrs == <<"NYJ", "CHI", "LAR", "IND">>
HomeAbbrs == <<"BUF", "DET", "KC", "TEN">>

\* a team of event k: the name properties it carries start at the kind
\* given ("none": a team that is still only a reference), the id only when
\* hasId
GameTeam(k, role, nameKind, hasId) ==
    LET display == IF role = "away" THEN AwayNames[k] ELSE HomeNames[k]
        short == IF role = "away" THEN AwayShorts[k] ELSE HomeShorts[k]
        abbr == IF role = "away" THEN AwayAbbrs[k] ELSE HomeAbbrs[k]
        named == CASE nameKind = "display" ->
                        [displayName |-> display, shortDisplayName |-> short, abbreviation |-> abbr]
                   [] nameKind = "short" -> [shortDisplayName |-> short, abbreviation |-> abbr]
                   [] nameKind = "abbr" -> [abbreviation |-> abbr]
                   [] nameKind = "none" -> [ref |-> TRUE]
    IN IF hasId THEN Merge(named, [id |-> IF role = "away" THEN 1 ELSE 2]) ELSE named

\* the odds entries below carry the lines 150 (away) and -180 (home) under
\* moneyLine, 140 and -130 under Moneyline, 250 and -300 in the fallback array

\* the flat fallback array: an entry for each team, then entries without a
\* target, without a moneyLine, and with a null moneyLine
FallbackArray ==
    <<[targetId |-> 1, moneyLine |-> Some(250)],
      [targetId |-> 2, moneyLine |-> Some(-300)],
      [targetId |-> 0, moneyLine |-> Some(-180)],
      [targetId |-> 3],
      [targetId |-> 4, moneyLine |-> None]>>

CamelOdds ==
    [awayTeamOdds |-> [moneyLine |-> Some(150)],
     homeTeamOdds |-> [moneyLine |-> Some(-180)]]

\* the odds list of a competition, by kind
GameOdds(kind) ==
    CASE kind = "none" -> <<>>
      [] kind = "camel" -> <<CamelOdds>>
      [] kind = "pascal" ->
            <<[awayTeamOdds |-> [Moneyline |-> Some(140)],
               homeTeamOdds |-> [Moneyline |-> Some(-130)]]>>
      [] kind = "both" ->
            <<[awayTeamOdds |-> [Moneyline |-> Some(140), moneyLine |-> Some(150)],
               homeTeamOdds |-> [Moneyline |-> Some(-130), moneyLine |-> Some(-180)]]>>
      [] kind = "pascalNull" ->
            <<[awayTeamOdds |-> [moneyLine |-> Some(150)],
               homeTeamOdds |-> [Moneyline |-> None, moneyLine |-> Some(-180)]]>>
      [] kind = "camelNull" ->
            <<[awayTeamOdds |-> [moneyLine |-> Some(0)],
               homeTeamOdds |-> [moneyLine |-> None]]>>
      [] kind = "items" -> <<[items |-> <<CamelOdds>>]>>
      [] kind = "itemsEmpty" -> <<Merge(CamelOdds, [items |-> <<>>])>>
      [] kind = "awayOnly" ->
            <<[awayTeamOdds |-> [moneyLine |-> Some(150)], moneyLine |-> FallbackArray]>>
      [] kind = "fallback" -> <<[moneyLine |-> FallbackArray]>>
      [] kind = "emptySides" ->
            <<[awayTeamOdds |-> <<>>, homeTeamOdds |-> <<>>, moneyLine |-> FallbackArray]>>
      [] kind = "nullSide" ->
            <<[awayTeamOdds |-> [Moneyline |-> None], moneyLine |-> FallbackArray]>>

GameOddsKinds ==
    {"none", "camel", "pascal", "both", "pascalNull", "camelNull", "items", "itemsEmpty",
     "awayOnly", "fallback", "emptySides", "nullSide"}

\* the competitors of event k in the order given: a away, h home, x a
\* competitor with another role; in hha and ahh the second home competitor
\* is another team
GameCompetitors(k, d) ==
    LET away == Competitor("away", GameTeam(k, "away", d.awayName, d.ids \in {"both", "away"}),
                           InlineScore(20))
        home == Competitor("home", GameTeam(k, "home", d.homeName, d.ids \in {"both", "home"}),
                           InlineScore(24))
        other == Competitor("neutral", [displayName |-> "Officials"], NoScore)
        secondHome == Competitor("home",
                          [id |-> 3, displayName |-> "Second Home", abbreviation |-> "SH"],
                          InlineScore(3))
    IN CASE d.order = "ah" -> <<away, home>>
         [] d.order = "ha" -> <<home, away>>
         [] d.order = "h" -> <<home>>
         [] d.order = "hh" -> <<home, home>>
         [] d.order = "hha" -> <<home, secondHome, away>>
         [] d.order = "xah" -> <<other, away, home>>

GameEvent(k, d) ==
    [Event(k, "", <<Competition(100 + k, GameCompetitors(k, d), GameOdds(d.odds))>>)
        EXCEPT !.statusState = "post"]

\* the shapes of an event: every order of competitors and kind of name with
\* plain odds, or every kind of odds and placement of ids with named teams
GameShapes ==
    [order : {"ah", "ha", "h", "hh", "hha", "xah"},
     awayName : {"display", "short", "abbr", "none"},
     homeName : {"display", "short", "abbr", "none"},
     odds : {"camel"}, ids : {"both"}]
    \cup
    [order : {"ah", "ha"}, awayName : {"display"}, homeName : {"display"},
     odds : GameOddsKinds, ids : {"both", "away", "home", "none"}]

\* the shapes of the events after the first of a list
GameFollowers ==
    {[order |-> "ah", awayName |-> "display", homeName |-> "display", odds |-> "camel", ids |-> "both"],
     [order |-> "ha", awayName |-> "none", homeName |-> "abbr", odds |-> "fallback", ids |-> "both"],
     [order |-> "h", awayName |-> "display", homeName |-> "display", odds |-> "none", ids |-> "both"]}

\* lists of at least one event: the call awaits Phase 2 for no other
GameLists ==
    {<<first>> \o rest :
        first \in GameShapes,
        rest \in UNION {[1..n -> GameFollowers] : n \in 0..(MaxGameEvents - 1)}}

\* the graphs the call resolves
GameGraphs == {[k \in DOMAIN d |-> GameEvent(k, d[k])] : d \in GameLists}

InitGames ==
    /\ currentYear \in ClockYears
    /\ ViewCalled /\ RankUnused
    /\ \E g \in GameGraphs : LastAwait(g)

\* the one step left is the last join of the call, which runs extractTeams
\* and returns (App.js:561-567)
NextGames == JoinPhase2

SpecGames == InitGames /\ [][NextGames]_vars

---------------------------------------------------------------------------
(* Properties of the retry loop.                                           *)

Range(s) == {s[n] : n \in 1..Len(s)}

---------------------------------------------------------------------------
(* One call on responses whose holders already carry data of their own: a  *)
(* list item that is a reference and has an id, a team whose inline        *)
(* records name the overall record without typing it.                      *)

\* a list item { $ref, id }: a deferred reference that already has its id
RefItemWithId == [RefItem EXCEPT !.id = 14]

\* an inline team whose overall record is told by its name only
TeamNamedOverall ==
    [id |-> 5, displayName |-> "Bears", abbreviation |-> "CHI",
     records |-> <<[type |-> "", name |-> <<"O">> \o Tail(Overall), summary |-> "0-0",
                    displayValue |-> ""]>>]

\* event without ids, both teams inline with an id and records
dNamedRecord ==
    Event(0, "", <<Competition(0,
        <<Competitor("away", TeamNamedOverall, InlineScore(3)),
          Competitor("home", HomeTeamInline, InlineScore(7))>>, <<>>)>>)

\* event with ids that already carries a status state
dLive == [dIds EXCEPT !.statusState = "in"]

\* bodies of an event-detail response
HolderDetailSet == {dBare, dIds, dFull, dNamedRecord, dLive}

\* bodies of the root response: one item, a reference with or without an
\* id, or an inline event
HolderRootBodies == {<<RefItemWithId>>, <<RefItem>>, <<dNamedRecord>>, <<dFull>>, <<dLive>>}

NextHolders ==
    \/ Call
    \/ \E body \in HolderRootBodies : RootOk(body)
    \/ \E k \in DOMAIN tasks, outcome \in FailureKinds : SubFetchFails(k, outcome)
    \/ \E k \in DOMAIN tasks, d \in HolderDetailSet : DetailOk(k, d)
    \/ JoinPhase0
    \/ \E k \in DOMAIN tasks, teamData \in TeamBodies : fetchAndPatchTeam(k, teamData)
    \/ \E k \in DOMAIN tasks, oddsData \in OddsBodies : fetchAndPatchOdds(k, oddsData)
    \/ \E k \in DOMAIN tasks, state \in StatusBodies : fetchAndPatchStatus(k, state)
    \/ \E k \in DOMAIN tasks, recordData \in RecordBodies : fetchAndPatchRecord(k, recordData)
    \/ \E k \in DOMAIN tasks, scoreData \in ScoreBodies : fetchAndPatchScore(k, scoreData)
    \/ JoinPhase1
    \/ JoinPhase2

\* the component when the call is made: at mount, or by the effect of the
\* render in which last year was selected
InitHolders ==
    /\ CallUnused /\ RankUnused
    /\ currentYear \in ClockYears
    /\ ViewUnmounted \/ ViewLoaded(currentYear - 1, "idle")

SpecHolders == InitHolders /\ [][NextHolders]_vars

---------------------------------------------------------------------------
(* The call under fairness: every fetch and body parse settles, and the    *)
(* runtime runs every timer and continuation that is due.                  *)

\* the list items and detail bodies of the responses: a reference, an event
\* with nothing to fetch but odds and status, one with every kind of
\* sub-resource, one that makes Phase 1 throw
LiveItems == {RefItem, dIds, dFull, dNoCompetitors}
LiveDetailSet == {dIds, dFull, dNoCompetitors}

\* bodies of the root response: no item, one item of each kind, and lists
\* of two whose fetches settle in any order
LiveRootBodies ==
    {<<>>} \cup {<<item>> : item \in LiveItems}
    \cup {<<RefItem, RefItem>>, <<dIds, dIds>>, <<dIds, dNoCompetitors>>}

\* the root fetch is in flight
RootAwaited == pc = "rootAwait"

\* the attempts of the call that a failure other than a non-2xx root
\* response made the loop abandon and repeat
TextRetries ==
    Cardinality({n \in 1..Len(rootLog) :
        rootLog[n] # "HttpError" /\ (n < rootFetches \/ pc = "backoff")})

\* the responses a call meets hold at most MaxTextRetries bodies that are
\* the text of an error page
RetryAllowed(e) ==
    (e.name = "ParseError" /\ includes(e.message, "HTTP Error")) =>
        TextRetries < MaxTextRetries

\* the root fetch settles
LiveRootSettles ==
    /\ RootAwaited
    /\ \/ RootTransportError
       \/ RootHttpError
       \/ \E text \in NotJson : RetryAllowed(SyntaxError(text)) /\ RootParseError(text)
       \/ \E body \in LiveRootBodies : RootOk(body)

\* a sub-resource fetch settles
LiveSubSettles ==
    /\ Pending # {}
    /\ \E k \in Pending :
          \/ \E outcome \in FailuresWith(NotJson) :
                RetryAllowed(outcome) /\ SubFetchFails(k, outcome)
          \/ \E d \in LiveDetailSet : DetailOk(k, d)
          \/ \E teamData \in TeamBodies : fetchAndPatchTeam(k, teamData)
          \/ \E oddsData \in OddsBodies : fetchAndPatchOdds(k, oddsData)
          \/ \E state \in StatusBodies : fetchAndPatchStatus(k, state)
          \/ \E recordData \in RecordBodies : fetchAndPatchRecord(k, recordData)
          \/ \E scoreData \in ScoreBodies : fetchAndPatchScore(k, scoreData)

\* the call starts, a timer fires, a continuation of Promise.all runs
LiveContinues ==
    \/ Call
    \/ Backoff
    \/ JoinPhase0
    \/ JoinPhase1
    \/ JoinPhase2

NextLive ==
    \/ LiveRootSettles
    \/ LiveSubSettles
    \/ LiveContinues

\* the runtime does not stall: while a fetch can settle, a timer fire or a
\* continuation run, one of them eventually does
SpecLive ==
    /\ InitCall /\ [][NextLive]_vars
    /\ WF_vars(NextLive)

\* C1: the root URL is fetched at most 5 times, a further attempt follows
\* only an attempt that failed with a non-2xx HTTP error, and once a root
\* attempt has succeeded the call does not fail: it returns the normalized
\* games.
C1_RetryThenReturnsGames ==
    /\ rootFetches <= 5
    /\ \A n \in 1..Len(rootLog) : n < rootFetches => rootLog[n] = "HttpError"
    /\ "Ok" \in Range(rootLog) => pc # "failed"
    /\ pc = "done" => games = Some(extractTeams(events))

\* C2: when all 5 root attempts fail with an HTTP error the call fails with
\* the dedicated exhausted-retries error, not with the HTTP error itself.
C2_ExhaustedRetriesIsDistinct ==
    (pc = "failed" /\ rootLog = [n \in 1..5 |-> "HttpError"])
        => (err = "ExhaustedRetries" /\ err # "HttpError")

\* C3: a root attempt that fails with a transport or body-parse failure
\* ends the call at once with that failure: it is the last attempt, no
\* further root fetch is issued and no backoff wait follows it.
C3_NonHttpFailurePropagates ==
    \A n \in 1..Len(rootLog) :
        rootLog[n] \in {"TransportError", "ParseError"} =>
            /\ n = Len(rootLog)
            /\ pc = "failed" /\ err = rootLog[n] /\ errSource = "root"
            /\ rootFetches = n
            /\ Len(waits) = n - 1

\* C4: the wait before the k-th retry is 1000 * 2^(k-1) ms for k = 1..4,
\* there is one wait per retry and none after the final attempt, and four
\* HTTP errors followed by a success have waited 15000 ms in total.
C4_BackoffDoubles ==
    /\ Len(waits) <= 4
    /\ \A k \in 1..Len(waits) : waits[k] = 1000 * Pow2(k - 1)
    /\ rootFetches >= 1 => Len(waits) = rootFetches - 1
    /\ rootLog = <<"HttpError", "HttpError", "HttpError", "HttpError", "Ok">>
          => SumSeq(waits) = 15000

\* witness of C4: four HTTP errors, then a 2xx response
C4_Witness ==
    /\ rootLog = <<"HttpError", "HttpError", "HttpError", "HttpError", "Ok">>
    /\ waits = <<1000, 2000, 4000, 8000>>

---------------------------------------------------------------------------
(* Properties of the phases.                                               *)

Issued(kinds) == {k \in DOMAIN tasks : k.kind \in kinds}
Settled(kinds) == {k \in Issued(kinds) : tasks[k].st # "pending"}

\* C5: no Phase 1 team fetch is issued while a Phase 0 detail fetch is
\* unsettled, and no Phase 2 fetch is issued while a Phase 0 or Phase 1
\* fetch is unsettled, whatever the order of completions.
C5_PhaseOrderTotal ==
    /\ Issued(Phase1Kinds) # {} => KindsPending({"detail", "abandoned"}) = {}
    /\ Issued(Phase2Kinds) # {} =>
          KindsPending({"detail", "abandoned"} \cup Phase1Kinds) = {}

\* the patch of a settled task is in the graph: applying it again changes
\* nothing
PatchVisible(k) == ApplyPatch(events, k, tasks[k].body) = events

\* C6: a failed Phase 1 or Phase 2 sub-resource fetch (transport error,
\* non-2xx response or unparseable body) never makes the call fail, and the
\* other fetches of the phase still run: none is rejected or dropped, and
\* each one that succeeded has its patch in the graph.
C6_SubFetchFailureIsolated ==
    /\ pc = "failed" => errSource \notin (Phase1Kinds \cup Phase2Kinds)
    /\ \A k \in Issued(Phase1Kinds \cup Phase2Kinds) :
          /\ tasks[k].st \in {"pending", "ok", "failed"}
          /\ (tasks[k].st = "ok" /\ (k.kind \in Phase2Kinds \/ pc = "phase1"))
                => PatchVisible(k)
    /\ (pc = "done" /\ Len(events) > 0) => Pending = {}

\* witness of C6: the call returned although a Phase 2 fetch failed, and a
\* sibling fetch of the same phase changed the graph
C6_Witness ==
    /\ pc = "done"
    /\ \E k \in Issued(Phase2Kinds) : tasks[k].st = "failed"
    /\ \E k \in Issued(Phase2Kinds) : tasks[k].st = "ok"
    /\ \E k \in Issued(Phase1Kinds) : tasks[k].st = "failed"
    /\ events # Phase2Marks(base)

\* C7: a Phase 0 item whose detail resolution fails (missing reference,
\* transport error, non-2xx response or unparseable body) is dropped and
\* the call does not fail.
C7_DetailFailureDropsItem ==
    (\E k \in Issued({"detail"}) : tasks[k].st \in {"failed", "rejected"})
        => pc # "failed"

WellFormed(ev) ==
    /\ HasCompetitors(ev)
    /\ Len(ev.competitions[1].competitors) >= 2

\* C8: when one event of the fetched set is structurally deficient and
\* another is well-formed, the resolution does not fail.
C8_StructuralErrorScoped ==
    ((\E e \in Indices(events) : ~WellFormed(events[e]))
        /\ (\E e \in Indices(events) : WellFormed(events[e])))
        => pc # "failed"

\* C9: once the normalizer has run (the call returned), every Phase 2
\* fetch has settled, and the returned games are the normalization of the
\* graph as it is: nothing has patched it since.
C9_NormalizeAfterPhase2 ==
    games # None =>
        /\ Pending = {}
        /\ pc = "done"
        /\ games = Some(extractTeams(events))

\* witness of C9: the call returned after fetches of all four Phase 2 kinds
C9_Witness ==
    /\ games # None
    /\ {k.kind : k \in Settled(Phase2Kinds)} = Phase2Kinds
    /\ \E k \in Issued({"score"}) : tasks[k].st = "ok"

KindRank(kind) ==
    CASE kind = "team" -> 1 [] kind = "odds" -> 2 [] kind = "status" -> 3
      [] kind = "record" -> 4 [] kind = "score" -> 5 [] OTHER -> 0

KeyBefore(k1, k2) ==
    \/ k1.e < k2.e
    \/ k1.e = k2.e /\ k1.c < k2.c
    \/ k1.e = k2.e /\ k1.c = k2.c /\ KindRank(k1.kind) <= KindRank(k2.kind)

RECURSIVE ApplyInKeyOrder(_, _)
\* the patches of the succeeded tasks among keys, applied in key order
ApplyInKeyOrder(keys, evs) ==
    IF keys = {} THEN evs
    ELSE LET k == CHOOSE x \in keys : \A y \in keys : KeyBefore(x, y)
         IN ApplyInKeyOrder(keys \ {k}, ApplyPatch(evs, k, tasks[k].body))

Succeeded(kinds) == {k \in Issued(kinds) : tasks[k].st = "ok"}

\* the graph the received bodies determine, whatever their order of arrival
OrderFreeGraph ==
    LET afterPhase1 == ApplyInKeyOrder(Succeeded(Phase1Kinds), base)
    IN IF pc \in {"phase2", "done"}
       THEN ApplyInKeyOrder(Succeeded(Phase2Kinds), Phase2Marks(afterPhase1))
       ELSE afterPhase1

BodiesOf(kind) ==
    CASE kind = "team" -> TeamBodies [] kind = "odds" -> OddsBodies
      [] kind = "status" -> StatusBodies [] kind = "record" -> RecordBodies
      [] kind = "score" -> ScoreBodies

\* C10: for fixed fetch outcomes the patched graph and the Game list do not
\* depend on the order in which the fetches of a phase complete: the graph
\* is always the one obtained by applying the received bodies in a fixed
\* order, and any two patches still in flight commute.
C10_PatchOrderIrrelevant ==
    /\ pc \in {"phase1", "phase2", "done"} => events = OrderFreeGraph
    /\ pc = "done" => games = Some(extractTeams(OrderFreeGraph))
    /\ \A k1, k2 \in KindsPending(Phase1Kinds \cup Phase2Kinds) :
          k1 # k2 =>
            \A b1 \in BodiesOf(k1.kind), b2 \in BodiesOf(k2.kind) :
                ApplyPatch(ApplyPatch(events, k1, b1), k2, b2)
                    = ApplyPatch(ApplyPatch(events, k2, b2), k1, b1)

\* witness of C10: the call returned after an odds and a status patch of
\* the same event and a record and a score patch all succeeded
C10_Witness ==
    /\ pc = "done"
    /\ \E k1, k2 \in Succeeded(Phase2Kinds) :
          k1.kind = "odds" /\ k2.kind = "status" /\ k1.e = k2.e /\ tasks[k2].body # ""
    /\ Succeeded({"record"}) # {}
    /\ Succeeded({"score"}) # {}

---------------------------------------------------------------------------
(* Frame of a failed sub-resource fetch.                                   *)

\* C11: a sub-resource fetch (team, odds, status, record or score) that
\* fails leaves the whole event graph, and so the field it was to resolve
\* and every value resolved before, exactly as it was.
C11_FailureLeavesGraphUntouched ==
    [][(\E k \in Issued(Phase1Kinds \cup Phase2Kinds) :
            /\ tasks[k].st = "pending"
            /\ k \in DOMAIN tasks'
            /\ tasks'[k].st \in {"failed", "rejected"})
        => events' = events]_vars

\* witness of C11: the call returned after the record fetch of a team that
\* came with an inline record failed, and the team still has that record
C11_Witness ==
    /\ pc = "done"
    /\ \E k \in Issued({"record"}) :
          /\ tasks[k].st = "failed"
          /\ Field(events[k.e].competitions[1].competitors[k.c].team, "records", <<>>)
                = HomeTeamInline.records

---------------------------------------------------------------------------
(* Properties of initializeFetch.                                          *)

\* the awaited resolution failed, or completed with zero usable games
EndedWithoutGames == result[1].threw \/ Len(result[1].games) = 0

\* the view is in the error state with a non-empty reason
ErrorShown == error # None /\ Len(error[1]) > 0 /\ error[1][1] # ""

\* C12 as claimed: whenever the resolution ends with a failure or with zero
\* usable games, initializeFetch ends in the error state with a non-empty
\* reason, never with an empty game list and no error.
C12_NoGamesIsAnError ==
    ifpc = "ended" =>
        /\ EndedWithoutGames => ErrorShown
        /\ ~(gamesState = <<>> /\ error = None)

\* C12 as amended: a failed resolution, or a year/week resolution that
\* yields zero games, ends in the error state with a non-empty reason and an
\* empty game list; a scoreboard resolution that yields zero games ends with
\* the empty game list and no error.
C12_DeepNoGamesIsAnError ==
    ifpc = "ended" =>
        /\ (result[1].threw \/ (requestedUrl # SCOREBOARD_URL /\ Len(result[1].games) = 0))
              => (ErrorShown /\ gamesState = <<>> /\ ~loading)
        /\ (~result[1].threw /\ requestedUrl = SCOREBOARD_URL /\ Len(result[1].games) = 0)
              => (error = None /\ gamesState = <<>> /\ ~loading)
        /\ (~result[1].threw /\ Len(result[1].games) > 0)
              => (error = None /\ gamesState = result[1].games)

\* witness of C12: a week of a season resolved to zero games and the view
\* shows the error
C12_Witness ==
    /\ ifpc = "ended"
    /\ requestedUrl = RequestedUrl(2025, 1)
    /\ ~result[1].threw /\ result[1].games = <<>>
    /\ error = Some(Reason(ZeroGamesMessage))

---------------------------------------------------------------------------
(* Properties of rankEvents, read off the ranking view once fetchEvents    *)
(* has shown its result: rankingData is the list handed to rankEvents (the *)
(* deep path hands over its items that are not toss-ups), rankedEvents the *)
(* list it returned.                                                       *)

\* fetchEvents ended after rankEvents returned
Ranked == fepc = "ended" /\ networkError = None

\* the ranks of the returned events
RanksReturned == {rankedEvents[n].confidenceRank : n \in Indices(rankedEvents)}

\* the position in the input of a returned event
InputPosition(e) == FirstIndex({n \in Indices(rankingData) : rankingData[n].id = e.id})

\* C13: rankEvents assigns confidenceRank only to events with a resolved
\* winner and a numeric winnerLine, and over the N returned events the ranks
\* are a bijection onto 1..N, equal lines included.
C13_RanksAreBijection ==
    Ranked =>
        /\ \A n \in Indices(rankingData) :
              rankingData[n].confidenceRank # None
                 => /\ rankingData[n].expectedWinner \notin {None, Some(TossUp)}
                    /\ rankingData[n].winnerLine # None
                    /\ rankingData[n] \in Range(rankedEvents)
        /\ \A n \in Indices(rankedEvents) : rankedEvents[n] \in Range(rankingData)
        /\ RanksReturned = {Some(r) : r \in 1..Len(rankedEvents)}
        /\ \A r \in 1..Len(rankedEvents) :
              Cardinality({n \in Indices(rankedEvents) :
                              rankedEvents[n].confidenceRank = Some(r)}) = 1

\* witness of C13: three events were returned, two of them with equal lines
C13_Witness ==
    /\ Ranked
    /\ Len(rankedEvents) = 3
    /\ \E a, b \in Indices(rankedEvents) :
          a # b /\ rankedEvents[a].winnerLine = rankedEvents[b].winnerLine
    /\ RanksReturned = {Some(1), Some(2), Some(3)}

\* C14: of two returned events the one with the smaller winnerLine has the
\* strictly greater confidenceRank; of two with equal winnerLine the one
\* earlier in the input has the greater rank; the strongest favorite has
\* rank N and the weakest rank 1.
C14_StrongerFavoriteRanksHigher ==
    Ranked =>
        /\ \A a, b \in Indices(rankedEvents) :
              LET x == rankedEvents[a]
                  y == rankedEvents[b]
              IN /\ x.winnerLine[1] < y.winnerLine[1]
                       => x.confidenceRank[1] > y.confidenceRank[1]
                 /\ (x.winnerLine = y.winnerLine /\ InputPosition(x) < InputPosition(y))
                       => x.confidenceRank[1] > y.confidenceRank[1]
        /\ \A a \in Indices(rankedEvents) :
              LET x == rankedEvents[a]
                  lines == {rankedEvents[n].winnerLine[1] : n \in Indices(rankedEvents)}
              IN /\ x.confidenceRank = Some(Len(rankedEvents))
                       => \A l \in lines : x.winnerLine[1] <= l
                 /\ x.confidenceRank = Some(1)
                       => \A l \in lines : x.winnerLine[1] >= l

\* witness of C14: the input held a weaker favorite before two equally
\* strong ones, and the earlier of the two has rank 3
C14_Witness ==
    /\ Ranked
    /\ Len(rankedEvents) = 3
    /\ rankedEvents[1].winnerLine = rankedEvents[2].winnerLine
    /\ rankedEvents[3].winnerLine[1] > rankedEvents[2].winnerLine[1]
    /\ InputPosition(rankedEvents[3]) = 1
    /\ InputPosition(rankedEvents[1]) = 2
    /\ rankedEvents[1].confidenceRank = Some(3)
    /\ rankedEvents[3].confidenceRank = Some(1)

---------------------------------------------------------------------------
(* Properties of the winner determination, read off the ranking view: the  *)
(* lines are those upstream delivered, the winner is the one of the item   *)
(* made of the event.                                                      *)

\* the events upstream delivered to the ranking view
UpstreamEvents ==
    IF upstream = None THEN <<>>
    ELSE IF isSpecificWeek THEN upstream[1]
    ELSE IF upstream[1].events = None THEN <<>>
    ELSE upstream[1].events[1]

\* the integer a moneyLine of the scoreboard denotes: the number itself, or
\* the integer a string writes in decimal with an optional plus sign; <<>>
\* when it denotes none
IntegerOf(v) ==
    IF v.t = "number" THEN Some(v.n)
    ELSE LET signed == v.s # <<>> /\ Head(v.s) \in {"+", "-"}
             digits == IF signed THEN Tail(v.s) ELSE v.s
         IN IF digits # <<>> /\ \A n \in 1..Len(digits) : IsDigit(digits[n])
            THEN Some((IF signed /\ Head(v.s) = "-" THEN -1 ELSE 1) * DigitsValue(digits, 0))
            ELSE None

\* the integer line upstream delivered for one side of an event, <<>> when
\* there is none; a moneyLine of the deep path is <<>> (null) or <<n>>
UpstreamLine(event, side) ==
    LET odds == event.competitions[1].odds
    IN IF Len(odds) > 0 /\ side \in DOMAIN odds[1] /\ "moneyLine" \in DOMAIN odds[1][side]
       THEN (IF isSpecificWeek THEN odds[1][side].moneyLine
             ELSE IntegerOf(odds[1][side].moneyLine))
       ELSE None

\* the event has both sides, and on the deep path both teams carry the id
\* their lines are filed under
TwoSided(event) ==
    LET competitors == event.competitions[1].competitors
    IN /\ Len(competitors) = 2
       /\ competitors[1].homeAway = "away" /\ competitors[2].homeAway = "home"
       /\ isSpecificWeek =>
             \A c \in 1..2 : Field(competitors[c].team, "id", 0) # 0

\* the id of the item made of a two-sided event (App.js:63, 672)
ItemIdOf(event) ==
    IF isSpecificWeek
    THEN <<event.competitions[1].competitors[1].team.displayName, "-",
           event.competitions[1].competitors[2].team.displayName>>
    ELSE event.id

\* the items of the ranking view: those shown, or those made before the
\* error when the view ended with one
ItemsOf(event) ==
    {rankingData[n] : n \in {n \in Indices(rankingData) : rankingData[n].id = ItemIdOf(event)}}

\* fetchEvents ended having made the items of the upstream events
ItemsMade == fepc = "ended" /\ networkError = None

\* the item names the away side, resp. the home side, as winner at its line
AwayWins(item, line) ==
    item.expectedWinner = Some(item.awayTeam) /\ item.winnerLine = Some(line)
HomeWins(item, line) ==
    item.expectedWinner = Some(item.homeTeam) /\ item.winnerLine = Some(line)

\* C15: for integer lines (away, home) of which at least one is negative the
\* expected winner is the side with the smaller line and winnerLine is that
\* line; with equal lines the home side wins; on both paths.
C15_FavoriteWins ==
    ItemsMade =>
        \A k \in Indices(UpstreamEvents) :
            LET event == UpstreamEvents[k]
                away == UpstreamLine(event, "awayTeamOdds")
                home == UpstreamLine(event, "homeTeamOdds")
            IN (TwoSided(event) /\ away # None /\ home # None
                   /\ (away[1] < 0 \/ home[1] < 0))
                  => /\ ItemsOf(event) # {}
                     /\ \A item \in ItemsOf(event) :
                           IF away[1] < home[1] THEN AwayWins(item, away[1])
                           ELSE HomeWins(item, home[1])

\* C16: for integer lines (away, home) both positive the expected winner is
\* the side with the smaller line and winnerLine is that line; with equal
\* lines the home side wins; on both paths.
C16_SlightFavoriteWins ==
    ItemsMade =>
        \A k \in Indices(UpstreamEvents) :
            LET event == UpstreamEvents[k]
                away == UpstreamLine(event, "awayTeamOdds")
                home == UpstreamLine(event, "homeTeamOdds")
            IN (TwoSided(event) /\ away # None /\ home # None
                   /\ away[1] > 0 /\ home[1] > 0)
                  => /\ ItemsOf(event) # {}
                     /\ \A item \in ItemsOf(event) :
                           IF away[1] < home[1] THEN AwayWins(item, away[1])
                           ELSE HomeWins(item, home[1])

\* witness of C16: the scoreboard delivered the lines (120, "+105") and the
\* home side is the expected winner at 105
C16_Witness ==
    /\ ItemsMade /\ ~isSpecificWeek
    /\ \E k \in Indices(UpstreamEvents) :
          /\ TwoSided(UpstreamEvents[k])
          /\ UpstreamLine(UpstreamEvents[k], "awayTeamOdds") = Some(120)
          /\ UpstreamLine(UpstreamEvents[k], "homeTeamOdds") = Some(105)
          /\ \E item \in ItemsOf(UpstreamEvents[k]) : HomeWins(item, 105)

\* C17: when the two lines do not both denote integers, or both do but
\* neither is negative and they are not both positive, the expected winner
\* is the sentinel, winnerLine is NaN and the event gets no confidence rank.
C17_OtherwiseTossUp ==
    ItemsMade =>
        \A k \in Indices(UpstreamEvents) :
            LET event == UpstreamEvents[k]
                away == UpstreamLine(event, "awayTeamOdds")
                home == UpstreamLine(event, "homeTeamOdds")
            IN (TwoSided(event)
                   /\ (\/ away = None
                       \/ home = None
                       \/ (away[1] >= 0 /\ home[1] >= 0 /\ ~(away[1] > 0 /\ home[1] > 0))))
                  => /\ ItemsOf(event) # {}
                     /\ \A item \in ItemsOf(event) :
                           /\ item.expectedWinner = Some(TossUp)
                           /\ item.winnerLine = None
                           /\ item.confidenceRank = None
                           /\ \A n \in Indices(rankedEvents) : rankedEvents[n].id # item.id

---------------------------------------------------------------------------
(* Properties of the normalizer, read off the games the call returned for  *)
(* the graph it had resolved.                                              *)

\* the event has both sides, away then home
BothSides(event) ==
    LET competitors == event.competitions[1].competitors
    IN /\ Len(competitors) = 2
       /\ competitors[1].homeAway = "away" /\ competitors[2].homeAway = "home"

\* the numeric score of a side of a two-sided event: <<>> when none is known
ScoreOf(event, c) == event.competitions[1].competitors[c].score.val

\* the games returned for an event, told by the home team
GamesOfEvent(event) ==
    {g \in Range(games[1]) :
        g.homeTeam = event.competitions[1].competitors[2].team.displayName}

Normalized == pc = "done" /\ games # None

\* C18: for every event whose statusState is post the side with the higher
\* score is winner and the other loser, or both tie on equal scores, the
\* displayed scores are the numeric scores, and the event is never reported
\* as upcoming or in-progress.
C18_PostIsDecided ==
    Normalized =>
        \A k \in Indices(events) :
            (BothSides(events[k]) /\ events[k].statusState = "post")
               => LET away == ScoreOf(events[k], 1)
                      home == ScoreOf(events[k], 2)
                  IN /\ GamesOfEvent(events[k]) # {}
                     /\ \A g \in GamesOfEvent(events[k]) :
                           /\ g.homeStatus \in {"winner", "loser", "tie"}
                           /\ g.awayStatus \in {"winner", "loser", "tie"}
                           /\ (away # None /\ home # None) =>
                                 /\ g.homeScore = home /\ g.awayScore = away
                                 /\ home[1] > away[1] =>
                                       (g.homeStatus = "winner" /\ g.awayStatus = "loser")
                                 /\ away[1] > home[1] =>
                                       (g.homeStatus = "loser" /\ g.awayStatus = "winner")
                                 /\ away[1] = home[1] =>
                                       (g.homeStatus = "tie" /\ g.awayStatus = "tie")

\* C19: for every event whose statusState is pre, absent or empty both sides
\* are upcoming and both displayed scores are the dash, numeric scores or
\* not.
C19_PreIsUpcoming ==
    Normalized =>
        \A k \in Indices(events) :
            (BothSides(events[k]) /\ events[k].statusState \in {"pre", ""})
               => /\ GamesOfEvent(events[k]) # {}
                  /\ \A g \in GamesOfEvent(events[k]) :
                        /\ g.homeStatus = "upcoming" /\ g.awayStatus = "upcoming"
                        /\ g.homeScore = None /\ g.awayScore = None

\* witness of C19: a pre event with scores 0 and 0 is upcoming with dashes
C19_Witness ==
    /\ Normalized
    /\ \E k \in Indices(events) :
          /\ BothSides(events[k]) /\ events[k].statusState = "pre"
          /\ ScoreOf(events[k], 1) = Some(0) /\ ScoreOf(events[k], 2) = Some(0)
          /\ \E g \in GamesOfEvent(events[k]) :
                /\ g.homeStatus = "upcoming" /\ g.awayStatus = "upcoming"
                /\ g.homeScore = None /\ g.awayScore = None

\* C20: for every event whose statusState is present and neither pre nor
\* post both sides are in-progress and each displayed score is the numeric
\* score when one is known, else the dash.
C20_LiveIsInProgress ==
    Normalized =>
        \A k \in Indices(events) :
            (BothSides(events[k]) /\ events[k].statusState \notin {"", "pre", "post"})
               => /\ GamesOfEvent(events[k]) # {}
                  /\ \A g \in GamesOfEvent(events[k]) :
                        /\ g.homeStatus = "in-progress" /\ g.awayStatus = "in-progress"
                        /\ g.homeScore = ScoreOf(events[k], 2)
                        /\ g.awayScore = ScoreOf(events[k], 1)

\* witness of C20: an event at half time with the home score 24 known and
\* the away score still a reference
C20_Witness ==
    /\ Normalized
    /\ \E k \in Indices(events) :
          /\ BothSides(events[k]) /\ events[k].statusState = "half"
          /\ ScoreOf(events[k], 2) = Some(24)
          /\ events[k].competitions[1].competitors[1].score = RefScore
          /\ \E g \in GamesOfEvent(events[k]) :
                /\ g.homeStatus = "in-progress" /\ g.awayStatus = "in-progress"
                /\ g.homeScore = Some(24) /\ g.awayScore = None

---------------------------------------------------------------------------
(* Properties of the normalizer on varied competitors, names and odds.     *)

CompetitorsOf(ev) == ev.competitions[1].competitors

\* the positions of the competitors of a role
WithRole(ev, role) == {c \in Indices(CompetitorsOf(ev)) : CompetitorsOf(ev)[c].homeAway = role}

\* the event has two or more competitors and both roles
Surviving(ev) ==
    Len(CompetitorsOf(ev)) >= 2 /\ WithRole(ev, "home") # {} /\ WithRole(ev, "away") # {}

\* the team of the last competitor of a role
TeamOf(ev, role) == CompetitorsOf(ev)[LastIndex(WithRole(ev, role))].team

\* the name a team resolved to: "" when it never resolved
ResolvedName(team) ==
    IF Field(team, "displayName", "") # "" THEN team.displayName
    ELSE IF Field(team, "shortDisplayName", "") # "" THEN team.shortDisplayName
    ELSE Field(team, "abbreviation", "")

NamesResolved(ev) ==
    ResolvedName(TeamOf(ev, "home")) # "" /\ ResolvedName(TeamOf(ev, "away")) # ""

\* the game at the place the event has among the surviving events
GameAt(e) == games[1][Cardinality({n \in 1..e : Surviving(events[n])})]

\* C21 as claimed: a Game is emitted only if both team names resolved to
\* non-empty values; an event whose home or away name never resolved
\* produces no Game and the other events still produce theirs.
C21_UnresolvedNameDropsGame ==
    Normalized =>
        Len(games[1]) = Cardinality({e \in Indices(events) :
                                        Surviving(events[e]) /\ NamesResolved(events[e])})

\* C21 as amended: a Game is emitted exactly for the events with both
\* roles; its names are never empty: a team whose name never resolved is
\* named 'Unknown Team' and its event still produces a Game.
C21_UnresolvedNameIsUnknownTeam ==
    Normalized =>
        /\ Len(games[1]) = Cardinality({e \in Indices(events) : Surviving(events[e])})
        /\ \A e \in Indices(events) :
              Surviving(events[e]) =>
                 \A role \in {"home", "away"} :
                    LET name == ResolvedName(TeamOf(events[e], role))
                        shown == IF role = "home" THEN GameAt(e).homeTeam ELSE GameAt(e).awayTeam
                    IN shown # "" /\ shown = (IF name # "" THEN name ELSE "Unknown Team")

\* witness of C21: the away team of the first event is still a reference,
\* and the event has its Game, before the Game of the second event
C21_Witness ==
    /\ Normalized
    /\ Len(events) = 2 /\ Len(games[1]) = 2
    /\ Surviving(events[1]) /\ ~NamesResolved(events[1])
    /\ games[1][1].awayTeam = "Unknown Team"
    /\ games[1][2].awayTeam = AwayNames[2]

\* C26: the normalizer emits exactly one Game per surviving event (two or
\* more competitors, both roles), in the relative order of the events;
\* events with fewer than two competitors produce none.
C26_OneGamePerSurvivingEvent ==
    Normalized =>
        /\ Len(games[1]) = Cardinality({e \in Indices(events) : Surviving(events[e])})
        /\ \A e \in Indices(events) :
              Surviving(events[e]) =>
                 \E c \in WithRole(events[e], "home") :
                    /\ GameAt(e).homeDebugRecordUrl = CompetitorsOf(events[e])[c].debugRecordUrl
                    /\ GameAt(e).homeTeamAbr = Field(CompetitorsOf(events[e])[c].team, "abbreviation", "")
                    /\ GameAt(e).homeScore = CompetitorsOf(events[e])[c].score.val

\* witness of C26: the first event has one competitor only and the Game
\* returned is the one of the second event
C26_Witness ==
    /\ Normalized
    /\ Len(events) = 2 /\ Len(games[1]) = 1
    /\ Len(CompetitorsOf(events[1])) = 1
    /\ Surviving(events[2])
    /\ games[1][1].homeTeamAbr = HomeAbbrs[2]

\* the event with its competitors rearranged by the permutation p
Rearranged(ev, p) ==
    [ev EXCEPT !.competitions[1].competitors = [c \in Indices(CompetitorsOf(ev)) |-> CompetitorsOf(ev)[p[c]]]]

\* C27 as claimed: home and away are told by the homeAway field only:
\* rearranging the competitors of an event changes no field of its Game.
C27_CompetitorOrderIrrelevant ==
    Normalized =>
        \A e \in Indices(events) :
            Surviving(events[e])
               => \A p \in Permutations(Indices(CompetitorsOf(events[e]))) :
                     extractTeams(<<Rearranged(events[e], p)>>) = <<GameAt(e)>>

\* C27 as amended: rearranging the competitors of an event with exactly one
\* home and one away competitor (others may stand beside them) changes no
\* field of its Game; when a role is repeated the Game shows the last
\* competitor of the role in the order of the array.
C27_OrderIrrelevantForOneOfEachRole ==
    Normalized =>
        \A e \in Indices(events) :
            Surviving(events[e]) =>
               /\ (Cardinality(WithRole(events[e], "home")) = 1
                      /\ Cardinality(WithRole(events[e], "away")) = 1)
                     => \A p \in Permutations(Indices(CompetitorsOf(events[e]))) :
                           extractTeams(<<Rearranged(events[e], p)>>) = <<GameAt(e)>>
               /\ \A role \in {"home", "away"} :
                     LET last == CompetitorsOf(events[e])[LastIndex(WithRole(events[e], role))]
                         shown == IF role = "home" THEN GameAt(e).homeTeam ELSE GameAt(e).awayTeam
                         score == IF role = "home" THEN GameAt(e).homeScore ELSE GameAt(e).awayScore
                     IN /\ ResolvedName(last.team) # "" => shown = ResolvedName(last.team)
                        /\ score = last.score.val

\* witness of C27: an event listing a third party, then away, then home,
\* has the Game of its away and home teams
C27_Witness ==
    /\ Normalized
    /\ Len(events) >= 1 /\ Len(CompetitorsOf(events[1])) = 3
    /\ CompetitorsOf(events[1])[1].homeAway = "neutral"
    /\ Surviving(events[1])
    /\ games[1][1].awayTeam = AwayNames[1] /\ games[1][1].homeTeam = HomeNames[1]
    /\ games[1][1].awayOdds = <<"+">> \o NumStr(150)
    /\ games[1][1].homeOdds = NumStr(-180)

\* a moneyline as it is shown: one leading '+' when positive, as it is
\* otherwise
Signed(n) == IF n > 0 THEN <<"+">> \o NumStr(n) ELSE NumStr(n)

LineStrings == {Signed(n) : n \in -300..300}

\* the odds object the first odds entry of the event has for a role
SideObject(ev, role) ==
    LET oddsList == ev.competitions[1].odds
        primary == oddsList[1]
        source == IF Len(Field(primary, "items", <<>>)) > 0 THEN primary.items[1] ELSE primary
    IN IF oddsList = <<>> THEN <<>>
       ELSE Field(source, IF role = "home" THEN "homeTeamOdds" ELSE "awayTeamOdds", <<>>)

HasFallbackArray(ev) ==
    ev.competitions[1].odds # <<>> /\ "moneyLine" \in DOMAIN ev.competitions[1].odds[1]

\* neither variant of the moneyline of the object carries a value
BothVariantsAbsent(obj) ==
    Field(obj, "Moneyline", None) = None /\ Field(obj, "moneyLine", None) = None

OddsShown(e, role) == IF role = "home" THEN GameAt(e).homeOdds ELSE GameAt(e).awayOdds

OneOfEachRole(ev) ==
    Surviving(ev) /\ Cardinality(WithRole(ev, "home")) = 1
                  /\ Cardinality(WithRole(ev, "away")) = 1

\* C22: homeOdds and awayOdds are each 'N/A' or a moneyline with a single
\* leading '+' when positive and unchanged when negative; an absent
\* moneyline (undefined or null) gives 'N/A', never "" or null.
C22_OddsAreSignedOrNA ==
    Normalized =>
        /\ \A g \in Indices(games[1]) :
              /\ games[1][g].homeOdds \in {NAStr} \cup LineStrings
              /\ games[1][g].awayOdds \in {NAStr} \cup LineStrings
        /\ \A e \in Indices(events) : \A role \in {"home", "away"} :
              OneOfEachRole(events[e]) =>
                 LET obj == SideObject(events[e], role)
                 IN /\ (BothVariantsAbsent(obj) /\ ~HasFallbackArray(events[e]))
                          => OddsShown(e, role) = NAStr
                    /\ (/\ "Moneyline" \notin DOMAIN obj
                        /\ Field(obj, "moneyLine", None) # None
                        /\ Field(TeamOf(events[e], role), "id", 0) # 0)
                          => OddsShown(e, role) = Signed(obj.moneyLine[1])

\* witness of C22: a positive line is shown with '+', a negative one as it
\* is, and in another run a null line is shown as 'N/A' beside a zero line
C22_Witness ==
    /\ Normalized /\ Len(events) = 2
    /\ SideObject(events[1], "home") = [moneyLine |-> None]
    /\ games[1][1].homeOdds = NAStr
    /\ games[1][1].awayOdds = <<"0">>
    /\ games[1][2].awayOdds = <<"+", "1", "5", "0">>
    /\ games[1][2].homeOdds = <<"-", "1", "8", "0">>

\* the value the first variant of the moneyline that is not absent carries:
\* Moneyline, then moneyLine; None when both are absent
FirstPresentVariant(obj) ==
    IF Field(obj, "Moneyline", None) # None THEN obj.Moneyline
    ELSE Field(obj, "moneyLine", None)

\* C28: the first non-absent of Moneyline and moneyLine of a team's odds
\* object is the one formatted: when exactly one variant carries a value
\* that value is shown, and an absent first variant never hides a present
\* second one.
C28_FirstPresentVariantWins ==
    Normalized =>
        \A e \in Indices(events) : \A role \in {"home", "away"} :
            (/\ OneOfEachRole(events[e])
             /\ Field(TeamOf(events[e], role), "id", 0) # 0
             /\ FirstPresentVariant(SideObject(events[e], role)) # None)
               => OddsShown(e, role) = Signed(FirstPresentVariant(SideObject(events[e], role))[1])

\* the primary source carries a moneyline for a team of the event it can
\* name by its id
PrimaryYields(ev) ==
    \E role \in {"home", "away"} :
        /\ Field(TeamOf(ev, role), "id", 0) # 0
        /\ FirstPresentVariant(SideObject(ev, role)) # None

\* what the entries of the flat fallback array would show for a team
FallbackStrings(ev, role) ==
    IF ~HasFallbackArray(ev) THEN {}
    ELSE LET list == ev.competitions[1].odds[1].moneyLine
         IN {Signed(list[n].moneyLine[1]) :
                n \in {m \in Indices(list) :
                          /\ list[m].targetId # 0
                          /\ list[m].targetId = Field(TeamOf(ev, role), "id", 0)
                          /\ Field(list[m], "moneyLine", None) # None}}

\* C29: the flat fallback array contributes to the odds of a competition
\* only when the primary source yielded no moneyline for either team: when
\* the primary source yields a moneyline for a team, no odds shown come
\* from a fallback entry.
C29_FallbackOnlyWhenPrimaryEmpty ==
    Normalized =>
        \A e \in Indices(events) : \A role \in {"home", "away"} :
            OneOfEachRole(events[e]) =>
               (PrimaryYields(events[e]) => OddsShown(e, role) \notin FallbackStrings(events[e], role))

\* witness of C29: the first event has a primary line for the away team
\* only and its home team shows 'N/A' although the fallback array has a line
\* for it; the second has no primary lines and shows the fallback lines
C29_Witness ==
    /\ Normalized /\ Len(events) = 2 /\ Len(games[1]) = 2
    /\ OneOfEachRole(events[1]) /\ OneOfEachRole(events[2])
    /\ PrimaryYields(events[1]) /\ HasFallbackArray(events[1])
    /\ FallbackStrings(events[1], "home") = {<<"-", "3", "0", "0">>}
    /\ games[1][1].awayOdds = <<"+", "1", "5", "0">>
    /\ games[1][1].homeOdds = NAStr
    /\ ~PrimaryYields(events[2]) /\ HasFallbackArray(events[2])
    /\ games[1][2].awayOdds = <<"+", "2", "5", "0">>
    /\ games[1][2].homeOdds = <<"-", "3", "0", "0">>

\* the records list of a competitor's team
RecordsOf(comp) == Field(comp.team, "records", <<>>)

\* the canonical win-loss entries of a records list
CanonicalEntries(records) == {n \in Indices(records) : IsOverallRecord(records[n])}

\* C23: after any sequence of record patches the records list of each team
\* has at most one canonical win-loss entry (type 'total' or name 'overall',
\* case-insensitive): a patch overwrites the summary of the existing entry
\* and never adds a second one.
C23_OneCanonicalRecord ==
    \A e \in Indices(events) :
        HasCompetitors(events[e]) =>
           \A c \in Indices(CompetitorsOf(events[e])) :
              Cardinality(CanonicalEntries(RecordsOf(CompetitorsOf(events[e])[c]))) <= 1

\* the positions of the list items whose detail body replaces them, in order
DetailedPositions ==
    SetToSeq({e \in Indices(events) :
                 /\ Key("detail", e, 0) \in DOMAIN tasks
                 /\ tasks[Key("detail", e, 0)].st = "ok"
                 /\ tasks[Key("detail", e, 0)].body.compsPresent
                 /\ Len(tasks[Key("detail", e, 0)].body.competitions) > 0})

\* the team of a competitor of the graph evs
TeamAt(evs, e, c) == evs[e].competitions[1].competitors[c].team

\* C24: a successful resolution merges the fetched body into its holder:
\* every field of the holder that the body does not carry keeps its value,
\* and an identifier known on the holder survives.  Stated for the list
\* item replaced by its event detail and for the team of a competitor.
C24_ResolutionMergesIntoHolder ==
    [][/\ (pc = "phase0" /\ pc' # "phase0") =>
             \A n \in Indices(DetailedPositions) :
                LET holder == events[DetailedPositions[n]]
                    body == tasks[Key("detail", DetailedPositions[n], 0)].body
                IN (holder.id # 0 /\ body.id = 0) => events'[n].id = holder.id
       /\ \A k \in DOMAIN tasks :
             (k.kind = "team" /\ tasks[k].st = "pending" /\ tasks'[k].st = "ok") =>
                \A f \in DOMAIN TeamAt(events, k.e, k.c) :
                   f \notin DOMAIN tasks'[k].body =>
                      /\ f \in DOMAIN TeamAt(events', k.e, k.c)
                      /\ TeamAt(events', k.e, k.c)[f] = TeamAt(events, k.e, k.c)[f]
      ]_vars

\* C30: only the root fetch is retried.  Each helper fetches at most once
\* for its holder: a sub-resource fetch that settled, well or badly, is
\* never issued again, and once a root attempt returned a 2xx response no
\* further root fetch is issued, whatever happens afterwards.
C30_OnlyRootRetried ==
    [][/\ \A k \in DOMAIN tasks :
             (tasks[k].st # "pending" /\ k \in DOMAIN tasks') => tasks'[k] = tasks[k]
       /\ "Ok" \in Range(rootLog) => rootFetches' = rootFetches
      ]_vars

\* a step of the schedule view's call, and one of the ranking view's
ScheduleStep == ifpc' # ifpc
RankingStep == fepc' # fepc

\* C25 as claimed: a call of fetchDeepSchedule changes no shared state: the
\* state the component shows about its fetches is as it was, and a step of
\* either view's call changes nothing of the other view.
C25_CallChangesNoSharedState ==
    [][/\ apiUrlUsed' = apiUrlUsed
       /\ RankingStep => UNCHANGED viewVars
       /\ ScheduleStep => UNCHANGED rankVars
      ]_vars

\* C25 as amended: the one shared state a call writes is apiUrlUsed, set to
\* the URL of the call when it is entered; it changes only when the
\* schedule view's call starts, the ranking view's call writing the URL it
\* already holds.  A step of either view's call changes nothing else of the
\* other view.
C25_CallWritesOnlyItsUrl ==
    [][/\ apiUrlUsed' # apiUrlUsed =>
             (ifpc = "idle" /\ ifpc' = "awaiting" /\ apiUrlUsed' = requestedUrl)
       /\ (ifpc = "idle" /\ ifpc' = "awaiting") => apiUrlUsed' = requestedUrl
       /\ RankingStep => UNCHANGED viewVars
       /\ ScheduleStep => UNCHANGED rankVars
      ]_vars

\* witness of C25: both calls are in flight on a selected week and
\* apiUrlUsed holds the URL both were called with
C25_Witness ==
    /\ ifpc = "awaiting" /\ fepc = "awaiting"
    /\ isSpecificWeek /\ requestedUrl # SCOREBOARD_URL
    /\ apiUrlUsed = requestedUrl /\ rankingUrl = requestedUrl

---------------------------------------------------------------------------
(* Properties of the record and status patches as the Games show them.     *)

\* the value the canonical record of a record response carries: its
\* display value, else its summary, "" when it has neither or there is no
\* canonical record
FetchedRecordValue(recordData) ==
    LET list == IF "items" \in DOMAIN recordData THEN recordData.items
                ELSE Field(recordData, "records", <<>>)
        found == CanonicalEntries(list)
        first == CHOOSE n \in found : \A m \in found : n <= m
    IN IF found = {} THEN ""
       ELSE IF list[first].displayValue # "" THEN list[first].displayValue
       ELSE list[first].summary

\* the record the Game of event e shows for competitor c
RecordShown(e, c) ==
    IF CompetitorsOf(events[e])[c].homeAway = "home" THEN GameAt(e).homeRecord
    ELSE GameAt(e).awayRecord

\* C31: after a successful record fetch whose body has a canonical record
\* carrying a summary or display value, the Game shows exactly the fetched
\* value as the record of that team, whatever records the team held before.
C31_FetchedRecordIsShown ==
    Normalized =>
        \A k \in DOMAIN tasks :
            (/\ k.kind = "record" /\ tasks[k].st = "ok"
             /\ FetchedRecordValue(tasks[k].body) # ""
             /\ OneOfEachRole(events[k.e]))
               => RecordShown(k.e, k.c) = FetchedRecordValue(tasks[k].body)

\* the status fetch of event e succeeded in this step with a state
StatusArrives(e) ==
    /\ Key("status", e, 0) \in DOMAIN tasks
    /\ tasks[Key("status", e, 0)].st = "pending"
    /\ tasks'[Key("status", e, 0)].st = "ok"
    /\ tasks'[Key("status", e, 0)].body # ""

\* C32: the statusState of an event is overwritten only by a status fetch
\* that succeeds with a non-empty state, and then holds that state; a
\* status response with an empty or missing state, a failed status fetch
\* and every other patch leave it as it was.
C32_StatusPatchedOnlyByState ==
    [][pc = "phase2" =>
          \A e \in Indices(events) :
             /\ StatusArrives(e) => events'[e].statusState = tasks'[Key("status", e, 0)].body
             /\ ~StatusArrives(e) => events'[e].statusState = events[e].statusState
      ]_vars

\* witness of C32: the status fetch of an event that held the state "in"
\* succeeded with an empty state and the event still holds "in"
C32_Witness ==
    /\ pc \in {"phase2", "done"} /\ Len(events) = 1
    /\ Key("status", 1, 0) \in DOMAIN tasks
    /\ tasks[Key("status", 1, 0)].st = "ok" /\ tasks[Key("status", 1, 0)].body = ""
    /\ events[1].statusState = "in"

---------------------------------------------------------------------------
(* Termination of the call.                                                *)

\* C35: every call of fetchDeepSchedule terminates, returning or throwing,
\* after at most 5 root attempts and 4 backoff waits, when every fetch and
\* body parse settles, whatever the order in which they settle.
C35_CallTerminates ==
    /\ [](rootFetches <= 5 /\ Len(waits) <= 4)
    /\ <>(pc \in {"done", "failed"})

\* witness of C35: the call threw after its fifth root attempt and four waits
C35_Witness ==
    /\ pc = "failed" /\ rootFetches = 5 /\ Len(waits) = 4
    /\ rootLog = <<"HttpError", "HttpError", "HttpError", "HttpError", "HttpError">>

---------------------------------------------------------------------------
(* Agreement of the two winner determinations (App.js:30-60, 640-669).     *)

\* what transformEvents determines for the integer lines (away, home) of a
\* scoreboard odds entry (App.js:30-60)
ScoreboardVerdict(away, home) ==
    LET oddsList == <<[awayTeamOdds |-> [moneyLine |-> JsNum(away)],
                       homeTeamOdds |-> [moneyLine |-> JsNum(home)]]>>
    IN transformWinner(LineNum(MoneyLineOf(oddsList, "awayTeamOdds")),
                       LineNum(MoneyLineOf(oddsList, "homeTeamOdds")),
                       "away", "home")

\* what the deep-fetch ranking path determines for the same lines, which
\* reach it as the formatted odds of a Game (App.js:166, 640-669)
DeepVerdict(away, home) ==
    rankingWinner([awayOdds |-> formatMoneyLine(Some(away))[1],
                   homeOdds |-> formatMoneyLine(Some(home))[1],
                   awayTeamAbr |-> "away", homeTeamAbr |-> "home"])

\* the winning side, the winner's line and the rankability of a verdict;
\* the side is none when the winner is the sentinel or null
VerdictOf(w, awayTeam, homeTeam) ==
    [side |-> IF w.expectedWinner = Some(awayTeam) THEN "away"
              ELSE IF w.expectedWinner = Some(homeTeam) THEN "home"
              ELSE "none",
     winnerLine |-> w.winnerLine,
     rankable |-> Rankable(w)]

\* C36: for every pair of integer moneylines (away, home) delivered by
\* upstream, the item made on either path names the same winning side, the
\* same winnerLine and the same rankability as the other path's
\* implementation determines for that pair.
C36_PathsAgree ==
    ItemsMade =>
        \A k \in Indices(UpstreamEvents) :
            LET event == UpstreamEvents[k]
                away == UpstreamLine(event, "awayTeamOdds")
                home == UpstreamLine(event, "homeTeamOdds")
            IN (TwoSided(event) /\ away # None /\ home # None)
                  => \A item \in ItemsOf(event) :
                        VerdictOf(item, item.awayTeam, item.homeTeam)
                           = VerdictOf(IF isSpecificWeek
                                       THEN ScoreboardVerdict(away[1], home[1])
                                       ELSE DeepVerdict(away[1], home[1]),
                                       "away", "home")

---------------------------------------------------------------------------
(* The component in use: the selection controls, the fetch button, the     *)
(* ranking button and the modal (App.js:98-135, 720-738, 780-787,          *)
(* 941-968, 1004-1040, 1248-1268).  A handler, the render it causes and    *)
(* the scheduling of the effect are one step; the effect then runs         *)
(* initializeFetch before the next event is handled.  An awaited call is   *)
(* seen through how it settles.                                            *)

\* initializeFetch calls one behaviour makes at most
MaxRequests == 3

\* the options of the year select (App.js:1012) and of the week select
\* (App.js:1027), of which the model offers the first two weeks
YearOptions == {currentYear - n : n \in 0..2}
WeekOptions == {1, 2}

\* what the dependencies of the effect compare (App.js:725): queryTrigger
\* and initializeFetch, which is made anew when requestedUrl changes or
\* fetchDeepSchedule is, and that is when targetYear changes (App.js:333,
\* 579, 616)
EffectDeps(y, w, q) == <<q, RequestedUrl(y, w), TargetYearOf(y)>>

\* the render after a handler set year, week and queryTrigger: requestedUrl
\* is recomputed (App.js:125-129) and the effect is scheduled when one of its
\* dependencies changed (App.js:722-725)
Rerender(y, w, q) ==
    /\ year' = y
    /\ week' = w
    /\ queryTrigger' = q
    /\ requestedUrl' = RequestedUrl(y, w)
    /\ ifpc' = (IF EffectDeps(y, w, q) # EffectDeps(year, week, queryTrigger)
                THEN "idle" ELSE ifpc)

\* the controls can be used, and the model has requests left
CanSelect == MainScreen /\ EffectRan /\ Len(fetches) < MaxRequests

\* onChange of the year select (App.js:1005-1008), which shows currentYear
\* while year is null
SelectYear(y) ==
    /\ MainScreen /\ EffectRan
    /\ y # TargetYearOf(year)
    /\ Rerender(y, week, queryTrigger)
    /\ UNCHANGED <<loading, error, gamesState, hasAttemptedQuery, result, apiUrlUsed>>
    /\ UNCHANGED <<fetches, rankedFor, currentYear>>
    /\ UNCHANGED <<callVars, rankVars>>

\* onChange of the week select (App.js:1020-1023)
SelectWeek(w) ==
    /\ MainScreen /\ EffectRan
    /\ w # week
    /\ Rerender(year, w, queryTrigger)
    /\ UNCHANGED <<loading, error, gamesState, hasAttemptedQuery, result, apiUrlUsed>>
    /\ UNCHANGED <<fetches, rankedFor, currentYear>>
    /\ UNCHANGED <<callVars, rankVars>>

\* a click on the fetch button, disabled while week is null or loading
\* (App.js:729-738, 1034-1036)
handleFetchClick ==
    /\ MainScreen /\ EffectRan
    /\ week # 0 /\ ~loading
    /\ Len(fetches) < MaxRequests
    /\ Rerender(TargetYearOf(year), week, queryTrigger + 1)
    /\ hasAttemptedQuery' = TRUE
    /\ UNCHANGED <<loading, error, gamesState, result, apiUrlUsed>>
    /\ UNCHANGED <<fetches, rankedFor, currentYear>>
    /\ UNCHANGED <<callVars, rankVars>>

\* a click on the backdrop or the close button of the modal (App.js:792, 927)
CloseModal ==
    /\ MainScreen /\ EffectRan
    /\ modalOpen
    /\ modalOpen' = FALSE
    /\ UNCHANGED <<isSpecificWeek, upstream, rankingData, rankedEvents,
                   isLoading, networkError, fepc>>
    /\ UNCHANGED <<callVars, viewVars, selectionVars>>

\* the component after construction (App.js:100-116)
InitUI == currentYear \in ClockYears /\ CallUnused /\ ViewUnmounted /\ RankUnused

\* the effect runs initializeFetch, which ends when its call settles
ScheduleSteps ==
    \/ initializeFetch
    \/ \E g \in SharedGames : InitializeFetchResumes(g)
    \/ \E message \in {"HttpError"} : InitializeFetchCatches(message)

\* the awaited fetch of fetchEvents settles
RankingSettles ==
    \/ RankAwaiting /\ \E evs \in SharedGraphs : FetchEventsRanksDeep(evs)
    \/ RankAwaiting /\ \E body \in SharedBodies : FetchEventsRanksScoreboard(body)
    \/ \E message \in {"TransportError"} : FetchEventsCatches(message)

NextUI ==
    \/ initializeFetch
    \/ \E g \in SharedGames : InitializeFetchResumes(g)
    \/ \E message \in {"HttpError"} : InitializeFetchCatches(message)
    \/ CanSelect /\ \E y \in YearOptions : SelectYear(y)
    \/ CanSelect /\ \E w \in WeekOptions : SelectWeek(w)
    \/ handleFetchClick
    \/ MainScreen /\ EffectRan /\ fetchEvents
    \/ RankAwaiting /\ \E evs \in SharedGraphs : FetchEventsRanksDeep(evs)
    \/ RankAwaiting /\ \E body \in SharedBodies : FetchEventsRanksScoreboard(body)
    \/ \E message \in {"TransportError"} : FetchEventsCatches(message)
    \/ CloseModal

SpecUI == InitUI /\ [][NextUI]_vars

\* every awaited call settles (the fetcher terminates when its fetches do)
\* and the effect and the continuations run
SpecUILive ==
    InitUI /\ [][NextUI]_vars /\ WF_vars(ScheduleSteps) /\ WF_vars(RankingSettles)

---------------------------------------------------------------------------
(* Properties of the component in use.                                     *)

\* C33: initializeFetch is started only on initial load and when
\* queryTrigger changed: every call after the first was made by a render
\* whose queryTrigger differs from that of the call before, so a change of
\* year or week alone starts no fetch.
C33_FetchOnlyOnTrigger ==
    \A k \in Indices(fetches) :
        k = 1 \/ fetches[k].trigger # fetches[k - 1].trigger

\* C37: at most one initializeFetch call is in flight at any time, and it
\* is the one made last: the call that settles and sets the games or the
\* error on display is the most recently requested one, and no call made
\* before it is left to overwrite its result.
C37_OneFetchInFlight ==
    /\ Cardinality(Awaiting) <= 1
    /\ \A k \in Awaiting : k = Len(fetches)

\* witness of C37: after the first call settled the user made a second
\* request, for another URL, which is in flight alone
C37_Witness ==
    /\ Len(fetches) = 2
    /\ fetches[1].settled /\ ~fetches[2].settled
    /\ fetches[2].url # fetches[1].url
    /\ loading

\* modalTitle (App.js:785-787) of a selection
ModalTitle(y, w) ==
    IF y # 0 /\ w # 0 THEN <<"Picks for ", y, " Week ", w>>
    ELSE <<"Picks for This Week">>

\* the modal is on screen with the list fetchEvents ranked (App.js:780-783,
\* 1268)
ModalShowsRanking ==
    /\ MainScreen /\ EffectRan /\ modalOpen
    /\ fepc = "ended" /\ networkError = None /\ rankedEvents # <<>>

\* C38: whenever the ranking modal shows a ranked list, the list was
\* computed from the year/week selection the modal title shows: the title
\* of the current selection is the title of the selection fetchEvents
\* closed over.
C38_TitleMatchesRanking ==
    ModalShowsRanking =>
        ModalTitle(year, week) = ModalTitle(rankedFor.year, rankedFor.week)

\* an initializeFetch call settles in this step; the fetchEvents call does
ScheduleEnds == Cardinality(Awaiting') < Cardinality(Awaiting)
RankingEnds == fepc = "awaiting" /\ fepc' = "ended"

\* C39: every top-level request eventually leaves loading.  initializeFetch
\* ends with loading false and either the error set and no games, or the
\* games of its call set and no error; fetchEvents ends with isLoading
\* false and the modal open, with either networkError set and no events, or
\* the ranked events set and no networkError; and every request made ends.
C39_RequestsEnd ==
    /\ [][ScheduleEnds =>
            /\ ~loading'
            /\ \/ error' # None /\ gamesState' = <<>>
               \/ error' = None /\ gamesState' = result'[1].games]_vars
    /\ [][RankingEnds =>
            /\ ~isLoading' /\ modalOpen'
            /\ \/ networkError' # None /\ rankedEvents' = <<>>
               \/ /\ networkError' = None
                  /\ \A n \in Indices(rankedEvents') :
                        rankedEvents'[n].confidenceRank = Some(Len(rankedEvents') - n + 1)]_vars
    /\ (~EffectRan \/ loading) ~> (EffectRan /\ ~loading /\ Awaiting = {})
    /\ isLoading ~> (~isLoading /\ fepc = "ended")

\* witness of C39: a second schedule request ended with an error and the
\* ranking request ended with a ranked list in the open modal
C39_Witness ==
    /\ Len(fetches) = 2 /\ Awaiting = {} /\ ~loading
    /\ error # None /\ gamesState = <<>>
    /\ fepc = "ended" /\ ~isLoading /\ modalOpen
    /\ networkError = None /\ rankedEvents # <<>>

====
